---- MODULE Spec2Model ----
(***************************************************************************)
(* DisplaxTouch: driver of the Displax touch controller over a byte        *)
(* stream.  The model follows src/src/DisplaxTouch.cpp method by method:   *)
(* every method is an operator on the record of the object's fields, and   *)
(* every public entry point (begin, loop, setFrameSize, ...) is one action.*)
(* Bytes are naturals 0..255.  A uint32_t is kept at its full width: the   *)
(* CRC as 8 nibbles (most significant first), a millis() reading as a pair *)
(* of 16-bit halves <<hi, lo>>.                                            *)
(***************************************************************************)
EXTENDS Integers, Sequences, FiniteSets, TLC

VARIABLES
    state,                    \* TouchState state
    rxBuffer,                 \* rxBuffer[0 .. rxBufferSize-1]; Len(rxBuffer) is rxBufferSize
    touches,                  \* TouchPoint touches[MAX_TOUCHES]
    touchCount,               \* uint8_t touchCount
    scanTime,                 \* scanTime
    frameWidth,               \* uint16_t frameWidth
    frameHeight,              \* uint16_t frameHeight
    listeners,                \* listeners[0 .. listenerCount-1]; Len(listeners) is listenerCount
    listenerIds,              \* listenerIds[0 .. listenerCount-1]
    nextListenerId,           \* int nextListenerId
    stateChangeCallback,      \* StateChangeCallback stateChangeCallback
    initializingStartTimeMs,  \* unsigned long initializingStartTimeMs
    stream,                   \* the bytes the transport holds: stream.available() is Len(stream)
    written,                  \* every stream.write() so far, oldest first
    clock,                    \* the reading millis() returns
    calls,                    \* touch listener invocations made by the last operation
    notes,                    \* stateChangeCallback invocations made by the last operation
    logged,                   \* log()/warn() calls made by the last operation
    op,                       \* the last operation: what was called, what it saw, what it returned
    elapsed,                  \* time units that passed since the last begin()
    quiet,                    \* no byte reached the transport since the last begin()
    fed,                      \* number of deliveries to the transport so far
    ticked,                   \* number of clock advances so far
    called                    \* number of API calls (other than loop) so far

vars == <<state, rxBuffer, touches, touchCount, scanTime, frameWidth, frameHeight,
          listeners, listenerIds, nextListenerId, stateChangeCallback,
          initializingStartTimeMs, stream, written, clock, calls, notes, logged,
          op, elapsed, quiet, fed, ticked, called>>

(* Program constants (DisplaxTouch.h)                                      *)

RX_BUFFER_SIZE == 2048
TOUCH_REPORT_SIZE == 72
TOUCH_CRC_SIZE == 4
GET_HID_DESCRIPTION_SIZE == 32
GET_HID_REPORT_DESCRIPTION_SIZE == 708
GET_FRAME_SIZE_SIZE == 6
TOUCH_PAYLOAD_SIZE == 64
MAX_TOUCH_CONTACTS == 6
MAX_TOUCHES == 6
MAX_LISTENERS == 4
INITIALIZATION_TIMEOUT_MS == 1000

\* enum class Command : uint16_t
RESET == 0
GET_HID_DESCRIPTOR == 1
GET_HID_REPORT_DESCRIPTION == 2
GET_FRAME_SIZE == 3
TOUCH_REPORT_ID == 4
ENABLE_REPORTING == 5
DISABLE_REPORTING == 6
RESET_RESPONSE == 8814          \* 0x226E
DISABLE_USB_REPORTING == 65280  \* 0xFF00
ENABLE_USB_REPORTING == 65281   \* 0xFF01

\* enum class TouchState
TouchState == {"DISCONNECTED", "INITIALIZING", "INITIALIZATION_FAILED",
               "CONNECTED", "SYNCHRONIZING", "SYNCHRONIZED"}

NULL == "nullptr"

(* 32-bit unsigned arithmetic                                              *)

Half == 2 ^ 16

\* unsigned long as <<hi, lo>>, value hi * 65536 + lo
U32(hi, lo) == <<hi, lo>>

Zero32 == U32(0, 0)

\* a + d modulo 2^32, for 0 <= d < 65536
Add32(a, d) ==
    LET lo == a[2] + d
    IN  U32((a[1] + (lo \div Half)) % Half, lo % Half)

\* a - b modulo 2^32 (unsigned subtraction wraps)
Sub32(a, b) ==
    LET borrow == IF a[2] < b[2] THEN 1 ELSE 0
    IN  U32((a[1] + Half - b[1] - borrow) % Half, (a[2] + Half - b[2]) % Half)

\* a >= n, for 0 <= n < 65536
Ge32(a, n) == a[1] > 0 \/ a[2] >= n

\* a > 0
Positive32(a) == a # Zero32

\* bit i of x
Bit(x, i) == (x \div (2 ^ i)) % 2

\* x ^ y on one bit
BitXor(p, q) == (p + q) % 2

\* x ^ y on 4-bit values
NibbleXor ==
    [x \in 0..15, y \in 0..15 |->
        BitXor(Bit(x, 0), Bit(y, 0))
        + (2 * BitXor(Bit(x, 1), Bit(y, 1)))
        + (4 * BitXor(Bit(x, 2), Bit(y, 2)))
        + (8 * BitXor(Bit(x, 3), Bit(y, 3)))]

\* a ^ b on uint32_t values held as 8 nibbles, most significant first
Xor32(a, b) == [i \in 1..8 |-> NibbleXor[a[i], b[i]]]

\* a << 4 on a uint32_t: the top nibble falls off
Shl4(a) == <<a[2], a[3], a[4], a[5], a[6], a[7], a[8], 0>>

\* a >> 28 on a uint32_t: the top nibble
Shr28(a) == a[1]

\* b0 | b1 << 8 | b2 << 16 | b3 << 24
Word32(b0, b1, b2, b3) ==
    <<b3 \div 16, b3 % 16, b2 \div 16, b2 % 16, b1 \div 16, b1 % 16, b0 \div 16, b0 % 16>>

\* the four bytes of a uint32_t, least significant first
Bytes32(a) ==
    <<a[7] * 16 + a[8], a[5] * 16 + a[6], a[3] * 16 + a[4], a[1] * 16 + a[2]>>

\* lo | hi << 8
Word16(lo, hi) == lo + 256 * hi

CRC32_TABLE ==
    <<
    <<0, 0, 0, 0, 0, 0, 0, 0>>,       \* 0x00000000
    <<0, 4, 12, 1, 1, 13, 11, 7>>,    \* 0x04C11DB7
    <<0, 9, 8, 2, 3, 11, 6, 14>>,     \* 0x09823B6E
    <<0, 13, 4, 3, 2, 6, 13, 9>>,     \* 0x0D4326D9
    <<1, 3, 0, 4, 7, 6, 13, 12>>,     \* 0x130476DC
    <<1, 7, 12, 5, 6, 11, 6, 11>>,    \* 0x17C56B6B
    <<1, 10, 8, 6, 4, 13, 11, 2>>,    \* 0x1A864DB2
    <<1, 14, 4, 7, 5, 0, 0, 5>>,      \* 0x1E475005
    <<2, 6, 0, 8, 14, 13, 11, 8>>,    \* 0x2608EDB8
    <<2, 2, 12, 9, 15, 0, 0, 15>>,    \* 0x22C9F00F
    <<2, 15, 8, 10, 13, 6, 13, 6>>,   \* 0x2F8AD6D6
    <<2, 11, 4, 11, 12, 11, 6, 1>>,   \* 0x2B4BCB61
    <<3, 5, 0, 12, 9, 11, 6, 4>>,     \* 0x350C9B64
    <<3, 1, 12, 13, 8, 6, 13, 3>>,    \* 0x31CD86D3
    <<3, 12, 8, 14, 10, 0, 0, 10>>,   \* 0x3C8EA00A
    <<3, 8, 4, 15, 11, 13, 11, 13>>   \* 0x384FBDBD
    >>

\* crc = (crc << 4) ^ CRC32_TABLE[crc >> 28]
NibbleStep(crc) == Xor32(Shl4(crc), CRC32_TABLE[Shr28(crc) + 1])

RECURSIVE crcWords(_, _, _, _)
crcWords(data, wordIndex, wordCount, crc) ==
    IF wordIndex >= wordCount
    THEN crc
    ELSE LET byteOffset == wordIndex * 4
             word == Word32(data[byteOffset + 1], data[byteOffset + 2],
                            data[byteOffset + 3], data[byteOffset + 4])
             c0 == Xor32(crc, word)
             c8 == NibbleStep(NibbleStep(NibbleStep(NibbleStep(
                   NibbleStep(NibbleStep(NibbleStep(NibbleStep(c0))))))))
         \* c8 is computed here, word by word as in the loop, before the next word
         IN  IF c8 = c8 THEN crcWords(data, wordIndex + 1, wordCount, c8) ELSE crc

calculateCRC32(data, length) ==
    crcWords(data, 0, length \div 4, <<15, 15, 15, 15, 15, 15, 15, 15>>)

\* verifyCRC comparing only the three low bytes of the stored CRC
verifyCRC_lowBytesOnly(frame) ==
    LET calculatedCrc == calculateCRC32(frame, TOUCH_REPORT_SIZE - TOUCH_CRC_SIZE)
        storedCrc == Word32(frame[69], frame[70], frame[71], 0)
    IN  SubSeq(calculatedCrc, 3, 8) = SubSeq(storedCrc, 3, 8)

verifyCRC(frame) ==
    LET calculatedCrc == calculateCRC32(frame, TOUCH_REPORT_SIZE - TOUCH_CRC_SIZE)
        storedCrc == Word32(frame[69], frame[70], frame[71], frame[72])
    IN  calculatedCrc = storedCrc

(* The object: one record field per data member, plus what the operation   *)
(* in progress has emitted (listener calls, notifications, log lines).     *)

\* TouchPoint touches[MAX_TOUCHES] = {}
NoTouchPoint ==
    [id |-> 0, x |-> 0, y |-> 0, width |-> 0, height |-> 0, pressure |-> 0,
     frameWidth |-> 0, frameHeight |-> 0, active |-> FALSE]

Machine ==
    [state |-> state, rxBuffer |-> rxBuffer, touches |-> touches,
     touchCount |-> touchCount, scanTime |-> scanTime,
     frameWidth |-> frameWidth, frameHeight |-> frameHeight,
     listeners |-> listeners, listenerIds |-> listenerIds,
     nextListenerId |-> nextListenerId,
     stateChangeCallback |-> stateChangeCallback,
     initializingStartTimeMs |-> initializingStartTimeMs,
     stream |-> stream, written |-> written, clock |-> clock,
     calls |-> <<>>, notes |-> <<>>, logged |-> <<>>]

\* rxBufferSize
rxBufferSize(m) == Len(m.rxBuffer)

\* listenerCount
listenerCount(m) == Len(m.listeners)

\* log(...) and warn(...): the line is kept whether or not a log callback is set
log(m, line) == [m EXCEPT !.logged = Append(@, line)]

warn(m, line) == [m EXCEPT !.logged = Append(@, line)]

sendCommand(m, command) ==
    LET commandBytes == <<command % 256, (command \div 256) % 256>>
    IN  log([m EXCEPT !.written = Append(@, commandBytes)], "Sent command")

\* consumeBuffer shifting from one byte too early
consumeBuffer_shiftsOneLess(m, bytesToConsume) ==
    IF bytesToConsume >= rxBufferSize(m)
    THEN [m EXCEPT !.rxBuffer = <<>>]
    ELSE [m EXCEPT !.rxBuffer = SubSeq(@, bytesToConsume, Len(@))]

consumeBuffer(m, bytesToConsume) ==
    IF bytesToConsume >= rxBufferSize(m)
    THEN [m EXCEPT !.rxBuffer = <<>>]
    ELSE [m EXCEPT !.rxBuffer = SubSeq(@, bytesToConsume + 1, Len(@))]

\* data[position .. position+3] is 04 00 40 00 (position counts from 0)
headerFound(data, position) ==
    /\ data[position + 1] = 4
    /\ data[position + 2] = 0
    /\ data[position + 3] = 64
    /\ data[position + 4] = 0

\* findFrameHeader with the search starting at position 1
findFrameHeader_fromOne(data, length) ==
    IF length < 4
    THEN -1
    ELSE LET found == {position \in 1..(length - 4) : headerFound(data, position)}
         IN  IF found = {}
             THEN -1
             ELSE CHOOSE position \in found : \A other \in found : position <= other

\* the for loop returns at the first position that matches
findFrameHeader(data, length) ==
    IF length < 4
    THEN -1
    ELSE LET found == {position \in 0..(length - 4) : headerFound(data, position)}
         IN  IF found = {}
             THEN -1
             ELSE CHOOSE position \in found : \A other \in found : position <= other

\* isValidTouchFrame testing the report id only, the size field left to the caller
isValidTouchFrame_idOnly(data, length) ==
    IF length < TOUCH_REPORT_SIZE
    THEN FALSE
    ELSE data[1] = 4 /\ data[2] = 0

isValidTouchFrame(data, length) ==
    IF length < TOUCH_REPORT_SIZE
    THEN FALSE
    ELSE headerFound(data, 0)

\* setState without the newState == previousState return
setState_alwaysNotifies(m, newState) ==
    LET previousState == m.state
        changed == log([m EXCEPT !.state = newState], "State changed")
    IN  IF changed.stateChangeCallback # NULL
        THEN [changed EXCEPT !.notes = Append(@, <<newState, previousState>>)]
        ELSE changed

setState(m, newState) ==
    LET previousState == m.state
    IN  IF newState = previousState
        THEN m
        ELSE LET changed == log([m EXCEPT !.state = newState], "State changed")
             IN  IF changed.stateChangeCallback # NULL
                 THEN [changed EXCEPT !.notes = Append(@, <<newState, previousState>>)]
                 ELSE changed

\* synchronize keeping the last 3 bytes, which may begin a marker, when none is found
synchronize_keepsTail(m) ==
    IF rxBufferSize(m) < 4
    THEN m
    ELSE LET frameHeaderPosition == findFrameHeader(m.rxBuffer, rxBufferSize(m))
         IN  IF frameHeaderPosition > 0
             THEN setState(consumeBuffer(log(m, "Synchronizing: discarding bytes before header"),
                                         frameHeaderPosition),
                           "SYNCHRONIZED")
             ELSE IF frameHeaderPosition = 0
             THEN setState(log(m, "Synchronized at frame header"), "SYNCHRONIZED")
             ELSE consumeBuffer(log(m, "No header found, discarding buffer"),
                                rxBufferSize(m) - 3)

\* synchronize declaring sync without discarding the bytes before the header
synchronize_keepsGarbage(m) ==
    IF rxBufferSize(m) < 4
    THEN m
    ELSE LET frameHeaderPosition == findFrameHeader(m.rxBuffer, rxBufferSize(m))
         IN  IF frameHeaderPosition >= 0
             THEN setState(log(m, "Synchronized at frame header"), "SYNCHRONIZED")
             ELSE consumeBuffer(log(m, "No header found, discarding buffer"), rxBufferSize(m))

synchronize(m) ==
    IF rxBufferSize(m) < 4
    THEN m
    ELSE LET frameHeaderPosition == findFrameHeader(m.rxBuffer, rxBufferSize(m))
         IN  IF frameHeaderPosition > 0
             THEN setState(consumeBuffer(log(m, "Synchronizing: discarding bytes before header"),
                                         frameHeaderPosition),
                           "SYNCHRONIZED")
             ELSE IF frameHeaderPosition = 0
             THEN setState(log(m, "Synchronized at frame header"), "SYNCHRONIZED")
             ELSE consumeBuffer(log(m, "No header found, discarding buffer"), rxBufferSize(m))

sendReset(m) == sendCommand(setState(m, "INITIALIZING"), RESET)

sendGetFrameSize(m) == sendCommand(m, GET_FRAME_SIZE)

sendEnableReporting(m) == sendCommand(m, ENABLE_REPORTING)

sendDisableUsbReporting(m) == sendCommand(m, DISABLE_USB_REPORTING)

processGetHidDescriptor(m) ==
    consumeBuffer(log(m, "Received HID descriptor"), GET_HID_DESCRIPTION_SIZE)

processGetHidReportDescriptor(m) ==
    consumeBuffer(log(m, "Received HID report descriptor"), GET_HID_REPORT_DESCRIPTION_SIZE)

\* processGetFrameSize going straight to ENABLE_REPORTING
processGetFrameSize_skipsDisableUsb(m) ==
    LET data == m.rxBuffer
        receivedWidth == Word16(data[3], data[4])
        receivedHeight == Word16(data[5], data[6])
        stored == [m EXCEPT !.frameWidth = receivedWidth, !.frameHeight = receivedHeight]
    IN  sendEnableReporting(
            consumeBuffer(log(stored, "Received frame size"), GET_FRAME_SIZE_SIZE))

processGetFrameSize(m) ==
    LET data == m.rxBuffer
        receivedWidth == Word16(data[3], data[4])
        receivedHeight == Word16(data[5], data[6])
        stored == [m EXCEPT !.frameWidth = receivedWidth, !.frameHeight = receivedHeight]
    IN  sendDisableUsbReporting(
            consumeBuffer(log(stored, "Received frame size"), GET_FRAME_SIZE_SIZE))

\* the slot loop running one slot past the contact array (<= instead of <); the
\* bytes it reads beyond the frame are taken as 0
RECURSIVE parseTouches_oneSlotMore(_, _, _, _)
parseTouches_oneSlotMore(m, payload, reportedTouchCount, touchIndex) ==
    IF ~(touchIndex < reportedTouchCount /\ touchIndex <= MAX_TOUCH_CONTACTS)
    THEN m
    ELSE LET first == 1 + touchIndex * 10
             touchData == [k \in 0..9 |-> IF first + k + 1 <= Len(payload)
                                          THEN payload[first + k + 1] ELSE 0]
             point == [id |-> touchData[1],
                       x |-> Word16(touchData[2], touchData[3]),
                       y |-> Word16(touchData[4], touchData[5]),
                       width |-> touchData[6],
                       height |-> touchData[7],
                       pressure |-> Word16(touchData[8], touchData[9]),
                       active |-> TRUE,
                       frameWidth |-> m.frameWidth,
                       frameHeight |-> m.frameHeight]
         IN  IF touchData[0] = 0
             THEN parseTouches_oneSlotMore(m, payload, reportedTouchCount, touchIndex + 1)
             ELSE parseTouches_oneSlotMore(
                      [m EXCEPT !.touches = IF m.touchCount < MAX_TOUCHES
                                            THEN [@ EXCEPT ![m.touchCount + 1] = point]
                                            ELSE @,
                                !.touchCount = @ + 1],
                      payload, reportedTouchCount, touchIndex + 1)

\* the slot loop without the reportedTouchCount bound: all six slots are read
RECURSIVE parseTouches_allSlots(_, _, _, _)
parseTouches_allSlots(m, payload, reportedTouchCount, touchIndex) ==
    IF ~(touchIndex < MAX_TOUCH_CONTACTS)
    THEN m
    ELSE LET first == 1 + touchIndex * 10
             touchData == [k \in 0..9 |-> payload[first + k + 1]]
             point == [id |-> touchData[1],
                       x |-> Word16(touchData[2], touchData[3]),
                       y |-> Word16(touchData[4], touchData[5]),
                       width |-> touchData[6],
                       height |-> touchData[7],
                       pressure |-> Word16(touchData[8], touchData[9]),
                       active |-> TRUE,
                       frameWidth |-> m.frameWidth,
                       frameHeight |-> m.frameHeight]
         IN  IF touchData[0] = 0
             THEN parseTouches_allSlots(m, payload, reportedTouchCount, touchIndex + 1)
             ELSE parseTouches_allSlots([m EXCEPT !.touches[m.touchCount + 1] = point,
                                                  !.touchCount = @ + 1],
                                        payload, reportedTouchCount, touchIndex + 1)

\* the body of the for loop over the touch slots, from touchIndex on
RECURSIVE parseTouches(_, _, _, _)
parseTouches(m, payload, reportedTouchCount, touchIndex) ==
    IF ~(touchIndex < reportedTouchCount /\ touchIndex < MAX_TOUCH_CONTACTS)
    THEN m
    ELSE LET first == 1 + touchIndex * 10
             touchData == [k \in 0..9 |-> payload[first + k + 1]]
             touchStatus == touchData[0]
             point == [id |-> touchData[1],
                       x |-> Word16(touchData[2], touchData[3]),
                       y |-> Word16(touchData[4], touchData[5]),
                       width |-> touchData[6],
                       height |-> touchData[7],
                       pressure |-> Word16(touchData[8], touchData[9]),
                       active |-> TRUE,
                       frameWidth |-> m.frameWidth,
                       frameHeight |-> m.frameHeight]
         IN  IF touchStatus = 0
             THEN parseTouches(m, payload, reportedTouchCount, touchIndex + 1)
             ELSE parseTouches([m EXCEPT !.touches[m.touchCount + 1] = point,
                                         !.touchCount = @ + 1],
                               payload, reportedTouchCount, touchIndex + 1)

\* the listener loop running from the last listener down to the first
notifyListeners_lastFirst(m) ==
    [m EXCEPT !.calls = @ \o [listenerIndex \in 1..listenerCount(m) |->
        [listener |-> m.listeners[listenerCount(m) + 1 - listenerIndex],
         touches |-> SubSeq(m.touches, 1, m.touchCount),
         count |-> m.touchCount]]]

\* listeners[listenerIndex](touches, touchCount) for every listenerIndex < listenerCount
notifyListeners(m) ==
    [m EXCEPT !.calls = @ \o [listenerIndex \in 1..listenerCount(m) |->
        [listener |-> m.listeners[listenerIndex],
         touches |-> SubSeq(m.touches, 1, m.touchCount),
         count |-> m.touchCount]]]

\* processTouchReport without the reset of touchCount before the slot loop
processTouchReport_keepsCount(m) ==
    LET data == m.rxBuffer
        length == rxBufferSize(m)
    IN  IF ~isValidTouchFrame(data, length)
        THEN setState(consumeBuffer(warn(m, "Invalid touch frame header, re-synchronizing"), 1),
                      "SYNCHRONIZING")
        ELSE LET payloadSize == Word16(data[3], data[4])
             IN  IF payloadSize # TOUCH_PAYLOAD_SIZE
                 THEN setState(consumeBuffer(warn(m, "Unexpected touch report payload size"), 1),
                               "SYNCHRONIZING")
                 ELSE IF ~verifyCRC(data)
                 THEN setState(consumeBuffer(warn(m, "CRC mismatch, re-synchronizing"), 1),
                               "SYNCHRONIZING")
                 ELSE LET payload == SubSeq(data, 5, TOUCH_REPORT_SIZE)
                          reportedTouchCount == payload[62]
                          timed == [m EXCEPT !.scanTime = Word16(payload[63], payload[64])]
                          parsed == parseTouches(timed, payload, reportedTouchCount, 0)
                      IN  consumeBuffer(notifyListeners(parsed), TOUCH_REPORT_SIZE)

\* processTouchReport reading the scan time before the CRC is verified
processTouchReport_scanTimeFirst(m) ==
    LET data == m.rxBuffer
        length == rxBufferSize(m)
    IN  IF ~isValidTouchFrame(data, length)
        THEN setState(consumeBuffer(warn(m, "Invalid touch frame header, re-synchronizing"), 1),
                      "SYNCHRONIZING")
        ELSE LET payload == SubSeq(data, 5, TOUCH_REPORT_SIZE)
                 reportedTouchCount == payload[62]
                 timed == [m EXCEPT !.scanTime = Word16(payload[63], payload[64])]
             IN  IF ~verifyCRC(data)
                 THEN setState(consumeBuffer(warn(timed, "CRC mismatch, re-synchronizing"), 1),
                               "SYNCHRONIZING")
                 ELSE consumeBuffer(
                          notifyListeners(parseTouches([timed EXCEPT !.touchCount = 0],
                                                       payload, reportedTouchCount, 0)),
                          TOUCH_REPORT_SIZE)

processTouchReport(m) ==
    LET data == m.rxBuffer
        length == rxBufferSize(m)
    IN  IF ~isValidTouchFrame(data, length)
        THEN setState(consumeBuffer(warn(m, "Invalid touch frame header, re-synchronizing"), 1),
                      "SYNCHRONIZING")
        ELSE LET payloadSize == Word16(data[3], data[4])
             IN  IF payloadSize # TOUCH_PAYLOAD_SIZE
                 THEN setState(consumeBuffer(warn(m, "Unexpected touch report payload size"), 1),
                               "SYNCHRONIZING")
                 ELSE IF ~verifyCRC(data)
                 THEN setState(consumeBuffer(warn(m, "CRC mismatch, re-synchronizing"), 1),
                               "SYNCHRONIZING")
                 ELSE LET payload == SubSeq(data, 5, TOUCH_REPORT_SIZE)
                          reportedTouchCount == payload[62]
                          timed == [m EXCEPT !.scanTime = Word16(payload[63], payload[64]),
                                             !.touchCount = 0]
                          parsed == parseTouches(timed, payload, reportedTouchCount, 0)
                      IN  consumeBuffer(notifyListeners(parsed), TOUCH_REPORT_SIZE)

\* processEnableReporting setting CONNECTED
processEnableReporting_connects(m) ==
    setState(consumeBuffer(log(m, "Received enable reporting response"), 2), "CONNECTED")

processEnableReporting(m) ==
    setState(consumeBuffer(log(m, "Received enable reporting response"), 2), "SYNCHRONIZED")

processDisableReporting(m) ==
    consumeBuffer(log(m, "Received disable reporting"), 2)

processResetResponse(m) ==
    LET consumed == consumeBuffer(log(m, "Received reset response"), 2)
        connected == setState(consumed, "CONNECTED")
    IN  sendGetFrameSize([connected EXCEPT !.initializingStartTimeMs = Zero32])

\* processDisableUsbReporting without the next initialization command
processDisableUsbReporting_stops(m) ==
    consumeBuffer(log(m, "Received disable USB reporting response"), 2)

processDisableUsbReporting(m) ==
    sendEnableReporting(
        consumeBuffer(log(m, "Received disable USB reporting response"), 2))

processEnableUsbReporting(m) ==
    consumeBuffer(log(m, "Received enable USB reporting response"), 2)

\* processStreamData treating an unknown report id as loss of sync at any length
processStreamData_unknownAlwaysResyncs(m) ==
    LET data == m.rxBuffer
        length == rxBufferSize(m)
        reportId == Word16(data[1], data[2])
    IN  IF reportId = GET_HID_DESCRIPTOR /\ length >= GET_HID_DESCRIPTION_SIZE
        THEN processGetHidDescriptor(m)
        ELSE IF reportId = GET_HID_REPORT_DESCRIPTION
                /\ length >= GET_HID_REPORT_DESCRIPTION_SIZE
        THEN processGetHidReportDescriptor(m)
        ELSE IF reportId = GET_FRAME_SIZE /\ length >= GET_FRAME_SIZE_SIZE
        THEN processGetFrameSize(m)
        ELSE IF reportId = TOUCH_REPORT_ID /\ length >= TOUCH_REPORT_SIZE
        THEN processTouchReport(m)
        ELSE IF reportId = ENABLE_REPORTING
        THEN processEnableReporting(m)
        ELSE IF reportId = DISABLE_REPORTING
        THEN processDisableReporting(m)
        ELSE IF reportId = RESET_RESPONSE
        THEN processResetResponse(m)
        ELSE IF reportId = DISABLE_USB_REPORTING
        THEN processDisableUsbReporting(m)
        ELSE IF reportId = ENABLE_USB_REPORTING
        THEN processEnableUsbReporting(m)
        ELSE IF reportId \notin {GET_HID_DESCRIPTOR, GET_HID_REPORT_DESCRIPTION,
                                 GET_FRAME_SIZE, TOUCH_REPORT_ID}
        THEN setState(warn(m, "Unknown report, searching for frame header"), "SYNCHRONIZING")
        ELSE m

processStreamData(m) ==
    LET data == m.rxBuffer
        length == rxBufferSize(m)
        reportId == Word16(data[1], data[2])
    IN  IF reportId = GET_HID_DESCRIPTOR /\ length >= GET_HID_DESCRIPTION_SIZE
        THEN processGetHidDescriptor(m)
        ELSE IF reportId = GET_HID_REPORT_DESCRIPTION
                /\ length >= GET_HID_REPORT_DESCRIPTION_SIZE
        THEN processGetHidReportDescriptor(m)
        ELSE IF reportId = GET_FRAME_SIZE /\ length >= GET_FRAME_SIZE_SIZE
        THEN processGetFrameSize(m)
        ELSE IF reportId = TOUCH_REPORT_ID /\ length >= TOUCH_REPORT_SIZE
        THEN processTouchReport(m)
        ELSE IF reportId = ENABLE_REPORTING
        THEN processEnableReporting(m)
        ELSE IF reportId = DISABLE_REPORTING
        THEN processDisableReporting(m)
        ELSE IF reportId = RESET_RESPONSE
        THEN processResetResponse(m)
        ELSE IF reportId = DISABLE_USB_REPORTING
        THEN processDisableUsbReporting(m)
        ELSE IF reportId = ENABLE_USB_REPORTING
        THEN processEnableUsbReporting(m)
        ELSE IF length >= TOUCH_REPORT_SIZE
        THEN setState(warn(m, "Unknown report, searching for frame header"), "SYNCHRONIZING")
        ELSE m

\* the drain loop testing rxBufferSize <= RX_BUFFER_SIZE
drainStream_oneMore(m) ==
    LET room == IF rxBufferSize(m) <= RX_BUFFER_SIZE
                THEN RX_BUFFER_SIZE + 1 - rxBufferSize(m) ELSE 0
        taken == IF Len(m.stream) < room THEN Len(m.stream) ELSE room
    IN  [m EXCEPT !.rxBuffer = @ \o SubSeq(m.stream, 1, taken),
                  !.stream = SubSeq(@, taken + 1, Len(@))]

\* while (stream.available() && rxBufferSize < RX_BUFFER_SIZE) rxBuffer[rxBufferSize++] = stream.read()
drainStream(m) ==
    LET room == IF rxBufferSize(m) < RX_BUFFER_SIZE THEN RX_BUFFER_SIZE - rxBufferSize(m) ELSE 0
        taken == IF Len(m.stream) < room THEN Len(m.stream) ELSE room
    IN  [m EXCEPT !.rxBuffer = @ \o SubSeq(m.stream, 1, taken),
                  !.stream = SubSeq(@, taken + 1, Len(@))]

\* the overflow branch without rxBufferSize = 0
handleBuffer_keepsOverflow(m) ==
    IF rxBufferSize(m) >= RX_BUFFER_SIZE
    THEN setState(warn(m, "RX buffer overflow"), "SYNCHRONIZING")
    ELSE IF rxBufferSize(m) < 2
    THEN m
    ELSE IF m.state = "SYNCHRONIZING"
    THEN synchronize(m)
    ELSE processStreamData(m)

\* readStreamData dispatching by report id in SYNCHRONIZING too
handleBuffer_dispatchesWhileSynchronizing(m) ==
    IF rxBufferSize(m) >= RX_BUFFER_SIZE
    THEN setState([warn(m, "RX buffer overflow") EXCEPT !.rxBuffer = <<>>], "SYNCHRONIZING")
    ELSE IF rxBufferSize(m) < 2
    THEN m
    ELSE processStreamData(m)

\* readStreamData dispatching only once the handshake has got an answer
handleBuffer_dispatchesOnlyWhenConnected(m) ==
    IF rxBufferSize(m) >= RX_BUFFER_SIZE
    THEN setState([warn(m, "RX buffer overflow") EXCEPT !.rxBuffer = <<>>], "SYNCHRONIZING")
    ELSE IF rxBufferSize(m) < 2
    THEN m
    ELSE IF m.state = "SYNCHRONIZING"
    THEN synchronize(m)
    ELSE IF m.state \in {"CONNECTED", "SYNCHRONIZED", "INITIALIZING"}
    THEN processStreamData(m)
    ELSE m

\* readStreamData() once the stream has been drained into rxBuffer
handleBuffer(m) ==
    IF rxBufferSize(m) >= RX_BUFFER_SIZE
    THEN setState([warn(m, "RX buffer overflow") EXCEPT !.rxBuffer = <<>>], "SYNCHRONIZING")
    ELSE IF rxBufferSize(m) < 2
    THEN m
    ELSE IF m.state = "SYNCHRONIZING"
    THEN synchronize(m)
    ELSE processStreamData(m)

\* readStreamData handling the buffer again after the first pass
readStreamData_passesTwice(m) == handleBuffer(handleBuffer(drainStream(m)))

readStreamData(m) == handleBuffer(drainStream(m))

\* the timeout check at the top of loop()
checkTimeout(m) ==
    IF m.state = "INITIALIZING" /\ Positive32(m.initializingStartTimeMs)
    THEN LET currentMs == m.clock
         IN  IF Ge32(Sub32(currentMs, m.initializingStartTimeMs), INITIALIZATION_TIMEOUT_MS)
             THEN [setState(warn(m, "Initialization timeout"), "INITIALIZATION_FAILED")
                      EXCEPT !.initializingStartTimeMs = Zero32]
             ELSE m
    ELSE m

loop(m) == readStreamData(checkTimeout(m))

\* begin() emptying the receive buffer as well as the transport
begin_clearsBuffer(m) ==
    sendReset([log(m, "Initializing") EXCEPT !.initializingStartTimeMs = m.clock,
                                             !.stream = <<>>,
                                             !.rxBuffer = <<>>])

begin(m) ==
    sendReset([log(m, "Initializing") EXCEPT !.initializingStartTimeMs = m.clock,
                                             !.stream = <<>>])

setFrameSize(m, width, height) ==
    log([m EXCEPT !.frameWidth = width, !.frameHeight = height], "Frame size manually set")

clearTouches(m) == [m EXCEPT !.touchCount = 0]

\* the value addTouchListener returns
addTouchListenerResult(m, callback) ==
    IF callback = NULL \/ listenerCount(m) >= MAX_LISTENERS
    THEN -1
    ELSE m.nextListenerId

\* addTouchListener assigning nextListenerId without advancing it
addTouchListener_keepsNextId(m, callback) ==
    IF callback = NULL \/ listenerCount(m) >= MAX_LISTENERS
    THEN m
    ELSE [m EXCEPT !.listeners = Append(@, callback),
                   !.listenerIds = Append(@, m.nextListenerId)]

\* addTouchListener with the capacity test off by one (> instead of >=)
addTouchListener_fifthAccepted(m, callback) ==
    IF callback = NULL \/ listenerCount(m) > MAX_LISTENERS
    THEN m
    ELSE [m EXCEPT !.nextListenerId = @ + 1,
                   !.listeners = Append(@, callback),
                   !.listenerIds = Append(@, m.nextListenerId)]

addTouchListener(m, callback) ==
    IF callback = NULL \/ listenerCount(m) >= MAX_LISTENERS
    THEN m
    ELSE [m EXCEPT !.nextListenerId = @ + 1,
                   !.listeners = Append(@, callback),
                   !.listenerIds = Append(@, m.nextListenerId)]

\* the indexes (from 1) at which the search loop of removeTouchListener matches
matching(m, listenerId) ==
    {index \in 1..listenerCount(m) : m.listenerIds[index] = listenerId}

\* the value removeTouchListener returns
removeTouchListenerResult(m, listenerId) == matching(m, listenerId) # {}

\* removeTouchListener filling the gap with the last listener instead of shifting
removeTouchListener_swapsLast(m, listenerId) ==
    IF matching(m, listenerId) = {}
    THEN m
    ELSE LET index == CHOOSE i \in matching(m, listenerId) :
                          \A j \in matching(m, listenerId) : i <= j
             swapped(s) == [k \in 1..(Len(s) - 1) |-> IF k = index THEN s[Len(s)] ELSE s[k]]
         IN  [m EXCEPT !.listeners = swapped(@), !.listenerIds = swapped(@)]

removeTouchListener(m, listenerId) ==
    IF matching(m, listenerId) = {}
    THEN m
    ELSE LET index == CHOOSE i \in matching(m, listenerId) :
                          \A j \in matching(m, listenerId) : i <= j
             shifted(s) == [k \in 1..(Len(s) - 1) |-> IF k < index THEN s[k] ELSE s[k + 1]]
         IN  [m EXCEPT !.listeners = shifted(@), !.listenerIds = shifted(@)]

setStateChangeCallback(m, callback) == [m EXCEPT !.stateChangeCallback = callback]

(* What the sensor and the application can do to the driver.               *)

\* the frame marker 04 00 40 00
Marker == <<4, 0, 64, 0>>

\* one 10-byte contact slot of a touch payload
Slot(status, id, x, y, width, height, pressure) ==
    <<status, id, x % 256, x \div 256, y % 256, y \div 256, width, height,
      pressure % 256, pressure \div 256>>

\* a 64-byte payload: sub-report id, 6 slots, contact count, scan time
Payload(slots, count, scan) ==
    <<1>> \o slots[1] \o slots[2] \o slots[3] \o slots[4] \o slots[5] \o slots[6]
          \o <<count, scan % 256, scan \div 256>>

\* the frame the sensor sends for a payload: marker, payload, CRC32 of both
SensorFrame(payload) ==
    LET body == Marker \o payload
    IN  body \o Bytes32(calculateCRC32(body, 68))

IdleSlot == Slot(0, 0, 0, 0, 0, 0, 0)

\* one contact in slot 0
FrameOne ==
    SensorFrame(Payload(<<Slot(1, 3, 291, 513, 7, 9, 784), IdleSlot, IdleSlot,
                          IdleSlot, IdleSlot, IdleSlot>>, 1, 4660))

\* reported count 3: slots 0 and 2 active, slot 1 inactive with data, slot 3 active but not counted
FrameGap ==
    SensorFrame(Payload(<<Slot(1, 2, 1000, 20, 1, 2, 3), Slot(0, 9, 77, 88, 5, 5, 5),
                          Slot(128, 5, 40000, 65535, 255, 0, 256), Slot(1, 4, 10, 10, 1, 1, 1),
                          IdleSlot, IdleSlot>>, 3, 255))

\* reported count 255, all six slots active
FrameFull ==
    SensorFrame(Payload(<<Slot(1, 0, 1, 2, 3, 4, 5), Slot(1, 1, 11, 12, 13, 14, 15),
                          Slot(1, 2, 21, 22, 23, 24, 25), Slot(2, 3, 31, 32, 33, 34, 35),
                          Slot(1, 4, 41, 42, 43, 44, 45), Slot(255, 5, 51, 52, 53, 54, 55)>>,
                        255, 65535))

\* reported count 0 although slot 0 carries an active status
FrameNone ==
    SensorFrame(Payload(<<Slot(1, 1, 5, 6, 7, 8, 9), IdleSlot, IdleSlot,
                          IdleSlot, IdleSlot, IdleSlot>>, 0, 7))

\* frame with the byte at offset k (from 0) inverted
Damaged(frame, k) == [frame EXCEPT ![k + 1] = 255 - @]

\* frame with the byte at offset k (from 0) replaced
Patched(frame, k, byte) == [frame EXCEPT ![k + 1] = byte]

\* n bytes, none of which can start or continue a marker or a report id
Garbage(n) == [i \in 1..n |-> 170]

ResetResponseBytes == <<110, 34>>

FrameSizeResponse(width, height) ==
    <<3, 0, width % 256, width \div 256, height % 256, height \div 256>>

DisableUsbResponseBytes == <<0, 255>>

EnableUsbResponseBytes == <<1, 255>>

EnableResponseBytes == <<5, 0>>

DisableResponseBytes == <<6, 0>>

\* a 32-byte HID descriptor response
HidDescriptorBytes == <<1, 0>> \o Garbage(30)

\* a 708-byte HID report descriptor response
HidReportDescriptorBytes == <<2, 0>> \o Garbage(706)

\* the callbacks the application registers
Callbacks == {"onTouchA", "onTouchB"}

OnState == "onStateChange"

\* the touch snapshot: contact list, contact count, scan time
Snapshot == <<SubSeq(touches, 1, touchCount), touchCount, scanTime>>

\* the object's fields, as an operation finds them
Fields ==
    [state |-> state, rxBuffer |-> rxBuffer, touches |-> touches,
     touchCount |-> touchCount, scanTime |-> scanTime,
     frameWidth |-> frameWidth, frameHeight |-> frameHeight,
     listeners |-> listeners, listenerIds |-> listenerIds,
     nextListenerId |-> nextListenerId,
     stateChangeCallback |-> stateChangeCallback,
     initializingStartTimeMs |-> initializingStartTimeMs]

\* the last operation, as the checks read it: the call, its argument and return
\* value, the state and buffer loop() dispatched on, the state and the snapshot
\* the call started from, the number of bytes buffered and the commands written
\* when it started, the size the latest setFrameSize() call asked for, the
\* object's fields when the call started, and the ids that addTouchListener()
\* has returned so far, in the order it returned them
Operation(kind, arg, ret, entry, buffered) ==
    [kind |-> kind, arg |-> arg, ret |-> ret, entry |-> entry, buffered |-> buffered,
     from |-> state, before |-> Snapshot,
     held |-> Len(rxBuffer), sent |-> written,
     manual |-> IF kind = "construct" THEN <<>>
                ELSE IF kind = "setFrameSize" THEN arg
                ELSE op.manual,
     pre |-> Fields,
     issued |-> IF kind = "construct" THEN <<>>
                ELSE IF kind = "addTouchListener" /\ ret # -1 THEN Append(op.issued, ret)
                ELSE op.issued]

\* the object's fields after an operation that left it as m
Becomes(m) ==
    /\ state' = m.state
    /\ rxBuffer' = m.rxBuffer
    /\ touches' = m.touches
    /\ touchCount' = m.touchCount
    /\ scanTime' = m.scanTime
    /\ frameWidth' = m.frameWidth
    /\ frameHeight' = m.frameHeight
    /\ listeners' = m.listeners
    /\ listenerIds' = m.listenerIds
    /\ nextListenerId' = m.nextListenerId
    /\ stateChangeCallback' = m.stateChangeCallback
    /\ initializingStartTimeMs' = m.initializingStartTimeMs
    /\ stream' = m.stream
    /\ written' = m.written
    /\ calls' = m.calls
    /\ notes' = m.notes
    /\ logged' = m.logged

InitAt(clocks) ==
    /\ state = "DISCONNECTED"
    /\ rxBuffer = <<>>
    /\ touches = [i \in 1..MAX_TOUCHES |-> NoTouchPoint]
    /\ touchCount = 0
    /\ scanTime = 0
    /\ frameWidth = 1050
    /\ frameHeight = 650
    /\ listeners = <<>>
    /\ listenerIds = <<>>
    /\ nextListenerId = 0
    /\ stateChangeCallback = NULL
    /\ initializingStartTimeMs = Zero32
    /\ stream = <<>>
    /\ written = <<>>
    /\ clock \in clocks
    /\ calls = <<>>
    /\ notes = <<>>
    /\ logged = <<>>
    /\ op = Operation("construct", <<>>, <<>>, "DISCONNECTED", <<>>)
    /\ elapsed = -1
    /\ quiet = FALSE
    /\ fed = 0
    /\ ticked = 0
    /\ called = 0

\* the application calls begin()
Begin(maxCalls) ==
    /\ called < maxCalls
    /\ Becomes(begin(Machine))
    /\ op' = Operation("begin", <<>>, <<>>, state, <<>>)
    /\ elapsed' = 0
    /\ quiet' = (rxBuffer = <<>>)
    /\ called' = called + 1
    /\ UNCHANGED <<clock, fed, ticked>>

\* the application calls loop()
Loop ==
    LET checked == checkTimeout(Machine)
        drained == drainStream(checked)
    IN  /\ Becomes(loop(Machine))
        /\ op' = Operation("loop", <<>>, <<>>, drained.state, drained.rxBuffer)
        /\ UNCHANGED <<clock, elapsed, quiet, fed, ticked, called>>

\* the sensor's bytes reach the transport
Feed(chunks, maxFeeds) ==
    /\ fed < maxFeeds
    /\ \E chunk \in chunks :
        /\ stream' = stream \o chunk
        /\ op' = Operation("feed", chunk, <<>>, state, <<>>)
    /\ calls' = <<>>
    /\ notes' = <<>>
    /\ logged' = <<>>
    /\ quiet' = FALSE
    /\ fed' = fed + 1
    /\ UNCHANGED <<state, rxBuffer, touches, touchCount, scanTime, frameWidth, frameHeight,
                   listeners, listenerIds, nextListenerId, stateChangeCallback,
                   initializingStartTimeMs, written, clock, elapsed, ticked, called>>

\* time passes: millis() advances by one of the given amounts
Tick(amounts, maxTicks) ==
    /\ ticked < maxTicks
    /\ \E amount \in amounts :
        /\ clock' = Add32(clock, amount)
        /\ elapsed' = IF elapsed < 0 THEN elapsed ELSE elapsed + amount
        /\ op' = Operation("tick", amount, <<>>, state, <<>>)
    /\ calls' = <<>>
    /\ notes' = <<>>
    /\ logged' = <<>>
    /\ ticked' = ticked + 1
    /\ UNCHANGED <<state, rxBuffer, touches, touchCount, scanTime, frameWidth, frameHeight,
                   listeners, listenerIds, nextListenerId, stateChangeCallback,
                   initializingStartTimeMs, stream, written, quiet, fed, called>>

\* the application calls setFrameSize(width, height)
SetFrameSize(sizes, maxCalls) ==
    /\ called < maxCalls
    /\ \E size \in sizes :
        /\ Becomes(setFrameSize(Machine, size[1], size[2]))
        /\ op' = Operation("setFrameSize", size, <<>>, state, <<>>)
    /\ called' = called + 1
    /\ UNCHANGED <<clock, elapsed, quiet, fed, ticked>>

\* the application calls clearTouches()
ClearTouches(maxCalls) ==
    /\ called < maxCalls
    /\ Becomes(clearTouches(Machine))
    /\ op' = Operation("clearTouches", <<>>, <<>>, state, <<>>)
    /\ called' = called + 1
    /\ UNCHANGED <<clock, elapsed, quiet, fed, ticked>>

\* the application calls addTouchListener(callback)
AddTouchListener(callbacks, maxCalls) ==
    /\ called < maxCalls
    /\ \E callback \in callbacks :
        /\ Becomes(addTouchListener(Machine, callback))
        /\ op' = Operation("addTouchListener", callback,
                           addTouchListenerResult(Machine, callback), state, <<>>)
    /\ called' = called + 1
    /\ UNCHANGED <<clock, elapsed, quiet, fed, ticked>>

\* the application calls removeTouchListener(listenerId)
RemoveTouchListener(ids, maxCalls) ==
    /\ called < maxCalls
    /\ \E listenerId \in ids :
        /\ Becomes(removeTouchListener(Machine, listenerId))
        /\ op' = Operation("removeTouchListener", listenerId,
                           removeTouchListenerResult(Machine, listenerId), state, <<>>)
    /\ called' = called + 1
    /\ UNCHANGED <<clock, elapsed, quiet, fed, ticked>>

\* the application calls setStateChangeCallback(callback)
SetStateChangeCallback(callbacks, maxCalls) ==
    /\ called < maxCalls
    /\ \E callback \in callbacks :
        /\ callback # stateChangeCallback
        /\ Becomes(setStateChangeCallback(Machine, callback))
        /\ op' = Operation("setStateChangeCallback", callback, <<>>, state, <<>>)
    /\ called' = called + 1
    /\ UNCHANGED <<clock, elapsed, quiet, fed, ticked>>

(* Touch reports: frames, damaged frames and split frames reach a driver   *)
(* whose application registers listeners.                                  *)

MaxTouchFeeds == 2
MaxTouchCalls == 1

TouchChunks ==
    {FrameOne, FrameGap,
     Damaged(FrameOne, 71), Patched(FrameGap, 70, 0),
     Patched(FrameOne, 2, 65), Patched(FrameOne, 3, 1), Damaged(FrameGap, 25),
     SubSeq(FrameOne, 1, 40), SubSeq(FrameOne, 41, 72)}

TouchInit == InitAt({Zero32})

TouchNext ==
    \/ Loop
    \/ Feed(TouchChunks, MaxTouchFeeds)
    \/ AddTouchListener({"onTouchA"}, MaxTouchCalls)

TouchSpec == TouchInit /\ [][TouchNext]_vars

\* the region loop() dispatched on: the receive buffer once the stream was drained
Buffered == op.buffered

\* the last operation was a loop() whose handling pass was processTouchReport
HandledTouchReport ==
    /\ op.kind = "loop"
    /\ op.entry # "SYNCHRONIZING"
    /\ Len(Buffered) >= TOUCH_REPORT_SIZE
    /\ Len(Buffered) < RX_BUFFER_SIZE
    /\ Buffered[1] = 4
    /\ Buffered[2] = 0

\* bytes 0..3 of the region are 04 00 40 00
HeaderPasses == SubSeq(Buffered, 1, 4) = Marker

\* the little-endian 16-bit value at bytes 2..3 is 64
PayloadSizePasses == Buffered[3] + 256 * Buffered[4] = TOUCH_PAYLOAD_SIZE

\* the little-endian 32-bit value at bytes 68..71 is the CRC32 of bytes 0..67
CrcPasses ==
    Bytes32(calculateCRC32(SubSeq(Buffered, 1, 68), 68)) = SubSeq(Buffered, 69, 72)

\* C1: a touch listener is invoked only by a loop() whose buffered region is at
\* least 72 bytes long, starts with 04 00 40 00 and stores at bytes 68..71 the
\* CRC32 of bytes 0..67; no listener runs for a frame whose stored CRC differs.
C1_ListenersOnlyForIntactFrames ==
    calls # <<>> =>
        /\ op.kind = "loop"
        /\ Len(Buffered) >= TOUCH_REPORT_SIZE
        /\ HeaderPasses
        /\ CrcPasses

\* a listener was invoked for a frame that arrived behind a rejected one
C1_Witness ==
    /\ calls # <<>>
    /\ op.kind = "loop"
    /\ CrcPasses
    /\ fed = 2

\* C2: a loop() that handles a touch report removes exactly 72 bytes and leaves
\* the state it dispatched in when header, payload size and CRC pass, and removes
\* exactly 1 byte and enters SYNCHRONIZING when one of them fails; what lies
\* behind the removed prefix stays, in order.
C2_TouchReportConsumption ==
    HandledTouchReport =>
        IF HeaderPasses /\ PayloadSizePasses /\ CrcPasses
        THEN /\ rxBuffer = SubSeq(Buffered, TOUCH_REPORT_SIZE + 1, Len(Buffered))
             /\ state = op.entry
        ELSE /\ rxBuffer = SubSeq(Buffered, 2, Len(Buffered))
             /\ state = "SYNCHRONIZING"

\* a report with a damaged CRC was rejected with a second frame behind it
C2_Witness ==
    /\ HandledTouchReport
    /\ HeaderPasses
    /\ ~CrcPasses
    /\ Len(Buffered) = 2 * TOUCH_REPORT_SIZE
    /\ Len(rxBuffer) = 2 * TOUCH_REPORT_SIZE - 1

\* a valid report was accepted with more bytes behind it
C2_WitnessAccepted ==
    /\ HandledTouchReport
    /\ CrcPasses
    /\ Len(Buffered) > TOUCH_REPORT_SIZE
    /\ Len(rxBuffer) = Len(Buffered) - TOUCH_REPORT_SIZE

(* Decoding: whole frames reach a driver whose application registers       *)
(* listeners and overrides the frame size.                                 *)

MaxDecodeFeeds == 2
MaxDecodeCalls == 2

DecodeChunks ==
    {FrameGap, FrameFull, FrameNone}

DecodeInit == InitAt({Zero32})

DecodeNext ==
    \/ Loop
    \/ Feed(DecodeChunks, MaxDecodeFeeds)
    \/ AddTouchListener(Callbacks, MaxDecodeCalls)
    \/ SetFrameSize({<<800, 600>>}, MaxDecodeCalls)

DecodeSpec == DecodeInit /\ [][DecodeNext]_vars

\* the last operation was a loop() that decoded the touch report at the buffer head
DecodedTouchReport ==
    /\ HandledTouchReport
    /\ HeaderPasses
    /\ PayloadSizePasses
    /\ CrcPasses

\* byte k (from 0) of the payload of the decoded frame
PayloadByte(k) == Buffered[4 + k + 1]

\* byte k (from 0) of 10-byte slot i (from 0)
SlotByte(i, k) == PayloadByte(1 + 10 * i + k)

\* the slots that yield a contact: non-zero status among the first min(count, 6)
ActiveSlots ==
    {i \in 0..5 : i < PayloadByte(61) /\ SlotByte(i, 0) # 0}

\* the j-th active slot in slot order (j from 1)
NthActiveSlot(j) ==
    CHOOSE i \in ActiveSlots : Cardinality({k \in ActiveSlots : k < i}) = j - 1

\* the contact slot i encodes, stamped with the frame size in effect
ContactOfSlot(i) ==
    [id |-> SlotByte(i, 1),
     x |-> SlotByte(i, 2) + 256 * SlotByte(i, 3),
     y |-> SlotByte(i, 4) + 256 * SlotByte(i, 5),
     width |-> SlotByte(i, 6),
     height |-> SlotByte(i, 7),
     pressure |-> SlotByte(i, 8) + 256 * SlotByte(i, 9),
     frameWidth |-> frameWidth,
     frameHeight |-> frameHeight,
     active |-> TRUE]

\* C7: after a successful decode the contact list is, in slot order, the slots
\* with non-zero status among the first min(reported count, 6), each with the
\* slot's little-endian fields and the frame size in effect, and the scan time is
\* the little-endian value at payload bytes 62..63; slots at or beyond the
\* reported count are ignored.
C7_DecodedContacts ==
    DecodedTouchReport =>
        /\ touchCount = Cardinality(ActiveSlots)
        /\ \A j \in 1..touchCount : touches[j] = ContactOfSlot(NthActiveSlot(j))
        /\ scanTime = PayloadByte(62) + 256 * PayloadByte(63)

\* FrameGap was decoded under an overridden frame size: slots 0 and 2 are the
\* contacts, slot 1 (inactive) and slot 3 (beyond the reported count) are not
C7_Witness ==
    /\ DecodedTouchReport
    /\ SubSeq(Buffered, 1, TOUCH_REPORT_SIZE) = FrameGap
    /\ touchCount = 2
    /\ touches[2].id = 5
    /\ touches[2].x = 40000
    /\ touches[1].frameWidth = 800
    /\ scanTime = 255

\* the invocations a decode owes the registered listeners: one each, in registry order
OwedCalls ==
    [i \in 1..Len(listeners) |->
        [listener |-> listeners[i],
         touches |-> SubSeq(touches, 1, touchCount),
         count |-> touchCount]]

\* C8: every successful decode, one with zero contacts included, invokes every
\* registered listener exactly once, in registration order (the registry is kept
\* in the order the ids were assigned), with the new contact set and count.
C8_EveryListenerOnceInOrder ==
    /\ \A i, j \in 1..Len(listenerIds) : i < j => listenerIds[i] < listenerIds[j]
    /\ DecodedTouchReport => calls = OwedCalls

\* a report with zero contacts was delivered to two different listeners
C8_Witness ==
    /\ DecodedTouchReport
    /\ touchCount = 0
    /\ listeners = <<"onTouchB", "onTouchA">>
    /\ Len(calls) = 2
    /\ calls[1].listener = "onTouchB"

(* The whole interface: any call and any delivery, in any order.           *)

MaxSteps == 3

Chunks ==
    {FrameOne, Damaged(FrameGap, 70), ResetResponseBytes, EnableResponseBytes,
     FrameSizeResponse(1920, 1080), DisableUsbResponseBytes,
     Garbage(RX_BUFFER_SIZE + 1)}

Init == InitAt({Zero32})

\* every delivery, clock advance and API call takes one of the MaxSteps steps
Next ==
    \/ Loop
    \/ Begin(MaxSteps - fed - ticked)
    \/ Feed(Chunks, MaxSteps - called - ticked)
    \/ Tick({INITIALIZATION_TIMEOUT_MS}, MaxSteps - called - fed)
    \/ SetFrameSize({<<800, 600>>}, MaxSteps - fed - ticked)
    \/ ClearTouches(MaxSteps - fed - ticked)
    \/ AddTouchListener({"onTouchA", NULL}, MaxSteps - fed - ticked)
    \/ RemoveTouchListener({0}, MaxSteps - fed - ticked)
    \/ SetStateChangeCallback({OnState, NULL}, MaxSteps - fed - ticked)

Spec == Init /\ [][Next]_vars

\* C9: the touch snapshot changes only in a loop() that decodes a touch report
\* or in clearTouches(), and a touch listener is invoked only by a loop() that
\* decodes a touch report: rejected reports, resync passes, overflows, handshake
\* responses, begin(), setFrameSize() and listener registration or removal leave
\* the snapshot alone and call no listener.
C9_SnapshotFrame ==
    /\ Snapshot # op.before => (op.kind = "clearTouches" \/ DecodedTouchReport)
    /\ calls # <<>> => DecodedTouchReport

\* a report was rejected while the snapshot of an earlier report stood
C9_Witness ==
    /\ HandledTouchReport
    /\ ~CrcPasses
    /\ touchCount = 1
    /\ scanTime = 4660
    /\ calls = <<>>

(* Resynchronization: garbage, markers, pieces of markers and more bytes   *)
(* than the receive buffer holds reach the driver.                         *)

MaxSyncFeeds == 3

SyncChunks ==
    {Garbage(3), Marker, <<4, 0, 64>>, <<0>>,
     Marker \o Garbage(2) \o Marker, Garbage(RX_BUFFER_SIZE - 5),
     ResetResponseBytes \o Garbage(RX_BUFFER_SIZE - 1)}

SyncInit == InitAt({Zero32})

SyncNext ==
    \/ Loop
    \/ Feed(SyncChunks, MaxSyncFeeds)

SyncSpec == SyncInit /\ [][SyncNext]_vars

\* the marker 04 00 40 00 lies at offset p (from 0) of the region loop() dispatched on
MarkerAt(p) ==
    /\ p + 4 <= Len(Buffered)
    /\ SubSeq(Buffered, p + 1, p + 4) = Marker

\* the offsets at which the region holds a complete marker
MarkerOffsets == {p \in 0..(Len(Buffered) - 1) : MarkerAt(p)}

\* the last operation was a loop() in state SYNCHRONIZING that did not overflow
ResyncPass ==
    /\ op.kind = "loop"
    /\ op.entry = "SYNCHRONIZING"
    /\ Len(Buffered) < RX_BUFFER_SIZE

\* C3: a loop() pass in SYNCHRONIZING over n < capacity buffered bytes changes
\* nothing when n < 4; when the marker first occurs at offset p it discards
\* exactly p bytes, leaves the marker at the buffer head and enters SYNCHRONIZED;
\* when no marker occurs it discards the whole buffer and stays in SYNCHRONIZING.
C3_ResyncPass ==
    ResyncPass =>
        IF Len(Buffered) < 4
        THEN /\ rxBuffer = Buffered
             /\ state = "SYNCHRONIZING"
        ELSE IF MarkerOffsets # {}
        THEN \E p \in MarkerOffsets :
                /\ \A q \in MarkerOffsets : p <= q
                /\ rxBuffer = SubSeq(Buffered, p + 1, Len(Buffered))
                /\ SubSeq(rxBuffer, 1, 4) = Marker
                /\ state = "SYNCHRONIZED"
        ELSE /\ rxBuffer = <<>>
             /\ state = "SYNCHRONIZING"

\* a resync pass discarded the 3 bytes in front of the first of two markers
C3_Witness ==
    /\ ResyncPass
    /\ MarkerOffsets = {3, 9}
    /\ rxBuffer = Marker \o Garbage(2) \o Marker
    /\ state = "SYNCHRONIZED"

\* a resync pass found the marker at offset 0
C3_WitnessAtHead ==
    /\ ResyncPass
    /\ 0 \in MarkerOffsets
    /\ state = "SYNCHRONIZED"

\* a resync pass found no marker in 4 or more bytes and emptied the buffer
C3_WitnessMiss ==
    /\ ResyncPass
    /\ Len(Buffered) >= 4
    /\ MarkerOffsets = {}
    /\ rxBuffer = <<>>

\* the last operation was a loop() that found the receive buffer full
OverflowPass ==
    /\ op.kind = "loop"
    /\ Len(Buffered) >= RX_BUFFER_SIZE

\* C10: a loop() that detects overflow discards every buffered byte, sets
\* SYNCHRONIZING and runs no handling pass (no listener call, no command, no
\* change of the snapshot); and the state goes from SYNCHRONIZING to SYNCHRONIZED
\* only in a loop() whose buffer holds a complete marker.
C10_OverflowResync ==
    /\ OverflowPass =>
        /\ rxBuffer = <<>>
        /\ state = "SYNCHRONIZING"
        /\ calls = <<>>
        /\ Snapshot = op.before
        /\ \A i \in 1..Len(logged) :
              logged[i] \in {"RX buffer overflow", "State changed", "Initialization timeout"}
    /\ (op.entry = "SYNCHRONIZING" /\ state = "SYNCHRONIZED") =>
        /\ op.kind = "loop"
        /\ MarkerOffsets # {}

\* capacity + 1 bytes without a marker were fed: loop() overflowed, emptied the
\* buffer and entered SYNCHRONIZING, the last byte still waiting in the transport
C10_Witness ==
    /\ OverflowPass
    /\ MarkerOffsets = {}
    /\ op.entry = "DISCONNECTED"
    /\ state = "SYNCHRONIZING"
    /\ rxBuffer = <<>>
    /\ Len(stream) = 1

\* a full buffer that begins with a reset response was discarded, not dispatched
C10_WitnessNotDispatched ==
    /\ OverflowPass
    /\ SubSeq(Buffered, 1, 2) = ResetResponseBytes
    /\ state = "SYNCHRONIZING"
    /\ written = <<>>

(* Initialization timeout: begin() at several clock readings, time passing, *)
(* and whatever the sensor may send late.                                   *)

MaxTimeoutCalls == 2
MaxTimeoutTicks == 2
MaxTimeoutFeeds == 1

\* millis() at construction: at boot, and 500 units before it wraps
BootClocks == {Zero32, U32(65535, 65036)}

TimeoutChunks ==
    {ResetResponseBytes, EnableResponseBytes, DisableUsbResponseBytes,
     Damaged(FrameOne, 69), Garbage(3), Garbage(80), Garbage(RX_BUFFER_SIZE),
     SubSeq(HidReportDescriptorBytes, 1, 80)}

TimeoutInit == InitAt(BootClocks)

TimeoutNext ==
    \/ Loop
    \/ Begin(MaxTimeoutCalls)
    \/ Tick({1, INITIALIZATION_TIMEOUT_MS - 1}, MaxTimeoutTicks)
    \/ Feed(TimeoutChunks, MaxTimeoutFeeds)
    \/ SetStateChangeCallback({OnState}, MaxTimeoutCalls)

TimeoutSpec == TimeoutInit /\ [][TimeoutNext]_vars

\* the last operation was a loop() at least 1000 time units after a begin() that
\* found the receive buffer empty, with no byte delivered since
LoopAfterSilentTimeout ==
    /\ op.kind = "loop"
    /\ quiet
    /\ elapsed >= INITIALIZATION_TIMEOUT_MS

\* C5: after begin() at any clock reading, 0 included, with no byte arriving, the
\* first loop() at which 1000 or more time units have elapsed moves INITIALIZING
\* to INITIALIZATION_FAILED with exactly one notification, and later loop() calls
\* leave INITIALIZATION_FAILED in place without a notification.
C5_TimeoutAtAnyClock ==
    LoopAfterSilentTimeout =>
        /\ state = "INITIALIZATION_FAILED"
        /\ notes = IF op.from = "INITIALIZING" /\ stateChangeCallback # NULL
                   THEN <<<<"INITIALIZATION_FAILED", "INITIALIZING">>>>
                   ELSE <<>>

\* the same with the begin() at a clock reading of 0 left out: the start time the
\* driver recorded is the reading at begin(), which was not 0
C5_TimeoutAtNonZeroClock ==
    (LoopAfterSilentTimeout /\ Sub32(clock, U32(elapsed \div Half, elapsed % Half)) # Zero32) =>
        /\ state = "INITIALIZATION_FAILED"
        /\ notes = IF op.from = "INITIALIZING" /\ stateChangeCallback # NULL
                   THEN <<<<"INITIALIZATION_FAILED", "INITIALIZING">>>>
                   ELSE <<>>

\* the timeout fired across the wrap of the 32-bit clock and was notified once
C5_WitnessWrap ==
    /\ LoopAfterSilentTimeout
    /\ op.from = "INITIALIZING"
    /\ state = "INITIALIZATION_FAILED"
    /\ clock = U32(0, 500)
    /\ Len(notes) = 1

\* C6 as stated: once INITIALIZATION_FAILED, the state is left only by begin();
\* no loop() changes it, whatever the transport delivers.
C6_FailedIsTerminal ==
    (op.from = "INITIALIZATION_FAILED" /\ state # "INITIALIZATION_FAILED") =>
        op.kind = "begin"

\* the 16-bit report id at the head of the region loop() dispatched on
HeadId == Buffered[1] + 256 * Buffered[2]

\* the report ids that come with a minimum length, and that length
SizedReports ==
    {GET_HID_DESCRIPTOR, GET_HID_REPORT_DESCRIPTION, GET_FRAME_SIZE, TOUCH_REPORT_ID}

MinimumLength(reportId) ==
    IF reportId = GET_HID_DESCRIPTOR THEN GET_HID_DESCRIPTION_SIZE
    ELSE IF reportId = GET_HID_REPORT_DESCRIPTION THEN GET_HID_REPORT_DESCRIPTION_SIZE
    ELSE IF reportId = GET_FRAME_SIZE THEN GET_FRAME_SIZE_SIZE
    ELSE TOUCH_REPORT_SIZE

\* the report ids processStreamData has a handler for
HandledReports ==
    SizedReports \cup {ENABLE_REPORTING, DISABLE_REPORTING, RESET_RESPONSE,
                       DISABLE_USB_REPORTING, ENABLE_USB_REPORTING}

\* C6 amended: INITIALIZATION_FAILED is left only by begin(), to INITIALIZING, or
\* by a loop() that dispatches at least 2 buffered bytes: to CONNECTED on a reset
\* response, to SYNCHRONIZED on an enable-reporting response, to SYNCHRONIZING on
\* overflow, on a rejected touch report, or with at least 72 bytes buffered under
\* a report id no handler takes at that length (an unknown id, or a report
\* shorter than its minimum length).
C6_FailedLeftByBeginOrInput ==
    (op.from = "INITIALIZATION_FAILED" /\ state # "INITIALIZATION_FAILED") =>
        \/ op.kind = "begin" /\ state = "INITIALIZING"
        \/ /\ op.kind = "loop"
           /\ Len(Buffered) >= 2
           /\ \/ OverflowPass /\ state = "SYNCHRONIZING"
              \/ ~OverflowPass /\ HeadId = RESET_RESPONSE /\ state = "CONNECTED"
              \/ ~OverflowPass /\ HeadId = ENABLE_REPORTING /\ state = "SYNCHRONIZED"
              \/ /\ HandledTouchReport
                 /\ ~(HeaderPasses /\ CrcPasses)
                 /\ state = "SYNCHRONIZING"
              \/ /\ ~OverflowPass
                 /\ \/ HeadId \notin HandledReports
                    \/ /\ HeadId \in SizedReports
                       /\ Len(Buffered) < MinimumLength(HeadId)
                 /\ Len(Buffered) >= TOUCH_REPORT_SIZE
                 /\ state = "SYNCHRONIZING"

\* a late reset response took the driver from INITIALIZATION_FAILED to CONNECTED
C6_Witness ==
    /\ op.kind = "loop"
    /\ op.from = "INITIALIZATION_FAILED"
    /\ Len(Buffered) >= 2
    /\ HeadId = RESET_RESPONSE
    /\ state = "CONNECTED"

(* Handshake: the sensor answers every command the driver writes, in time, *)
(* and the application keeps calling loop().                                *)

MaxHandshakeCalls == 1
MaxHandshakeTicks == 2

SensorSizes == {<<1920, 1080>>, <<4096, 65535>>}

\* the command code written by the k-th write, low byte first
CommandAt(k) == written[k][1] + 256 * written[k][2]

\* what the sensor sends back for a command
Replies(command) ==
    IF command = RESET THEN {ResetResponseBytes}
    ELSE IF command = GET_FRAME_SIZE
    THEN {FrameSizeResponse(size[1], size[2]) : size \in SensorSizes}
    ELSE IF command = DISABLE_USB_REPORTING THEN {DisableUsbResponseBytes}
    ELSE IF command = ENABLE_REPORTING THEN {EnableResponseBytes}
    ELSE {}

\* the application calls begin() on the freshly constructed driver
BeginFromDisconnected ==
    /\ state = "DISCONNECTED"
    /\ Begin(MaxHandshakeCalls)

\* the sensor answers the oldest command it has not answered yet
SensorReply ==
    /\ fed < Len(written)
    /\ Feed(Replies(CommandAt(fed + 1)), Len(written))

\* time passes, the reset response being handled before the timeout
TimelyTick ==
    Tick({amount \in {400, 999} :
            state = "INITIALIZING" => elapsed + amount < INITIALIZATION_TIMEOUT_MS},
         MaxHandshakeTicks)

HandshakeInit == InitAt({Zero32, U32(0, 1), U32(65535, 65036)})

HandshakeNext ==
    \/ BeginFromDisconnected
    \/ SensorReply
    \/ Loop
    \/ TimelyTick

HandshakeSpec ==
    /\ HandshakeInit
    /\ [][HandshakeNext]_vars
    /\ WF_vars(BeginFromDisconnected)
    /\ WF_vars(SensorReply)
    /\ WF_vars(Loop)

CommandBytes(command) == <<command % 256, command \div 256>>

HandshakeCommands ==
    <<CommandBytes(RESET), CommandBytes(GET_FRAME_SIZE),
      CommandBytes(DISABLE_USB_REPORTING), CommandBytes(ENABLE_REPORTING)>>

HandshakePath ==
    {<<"DISCONNECTED", "INITIALIZING">>, <<"INITIALIZING", "CONNECTED">>,
     <<"CONNECTED", "SYNCHRONIZED">>}

C11_BufferWithinCapacity ==
    /\ Len(rxBuffer) <= RX_BUFFER_SIZE
    /\ op.kind = "loop" =>
        /\ Len(Buffered) <= RX_BUFFER_SIZE
        /\ Len(Buffered) >= op.held
        /\ stream # <<>> => Len(Buffered) = RX_BUFFER_SIZE

\* loop() filled the buffer to the last slot with more than 2000 bytes still
\* waiting in the transport
C11_Witness ==
    /\ op.kind = "loop"
    /\ Len(Buffered) = RX_BUFFER_SIZE
    /\ op.held > 0
    /\ Len(stream) > 2000

(* Garbage followed by a marker, for every length of garbage below the     *)
(* capacity of the receive buffer, reaching a driver that is searching for *)
(* a marker with nothing buffered.                                         *)

MaxMarkerFeeds == 2

MarkerInit == InitAt({Zero32})

\* a full buffer of garbage reaches the freshly constructed driver: the loop()
\* that reads it leaves the driver in SYNCHRONIZING with nothing buffered
GarbageFlood ==
    /\ state = "DISCONNECTED"
    /\ stream = <<>>
    /\ Feed({Garbage(RX_BUFFER_SIZE)}, MaxMarkerFeeds)

\* K garbage bytes and the marker reach the driver while it is in SYNCHRONIZING
\* with nothing buffered and nothing pending
GarbageThenMarker ==
    /\ state = "SYNCHRONIZING"
    /\ rxBuffer = <<>>
    /\ stream = <<>>
    /\ Feed({Garbage(K) \o Marker : K \in 0..(RX_BUFFER_SIZE - 1)}, MaxMarkerFeeds)

MarkerNext ==
    \/ Loop
    \/ GarbageFlood
    \/ GarbageThenMarker

MarkerSpec == MarkerInit /\ [][MarkerNext]_vars

\* everything the transport held when the last loop() started
Delivered == Buffered \o stream

\* the last operation was a loop() in SYNCHRONIZING that started with nothing
\* buffered and found K garbage bytes and the marker on the transport, K at most
\* maxGarbage
MarkerAfterGarbage(maxGarbage) ==
    /\ op.kind = "loop"
    /\ op.from = "SYNCHRONIZING"
    /\ op.held = 0
    /\ Len(Delivered) >= 4
    /\ Len(Delivered) - 4 <= maxGarbage
    /\ Delivered = Garbage(Len(Delivered) - 4) \o Marker

\* C12 as stated: for every K with 0 <= K < 2048, K garbage bytes followed by
\* the marker, delivered in SYNCHRONIZING with an empty buffer, leave exactly
\* the marker buffered and the state SYNCHRONIZED.
C12_MarkerAfterAnyGarbage ==
    MarkerAfterGarbage(RX_BUFFER_SIZE - 1) =>
        /\ state = "SYNCHRONIZED"
        /\ rxBuffer = Marker
        /\ stream = <<>>

\* C12 amended: the same for every K with K + 4 < 2048, the K + 4 bytes being
\* on the transport when loop() is called; for K from 2044 to 2047 the pass
\* fills the buffer, discards all 2048 bytes read and stays in SYNCHRONIZING.
C12_MarkerAfterGarbageThatFits ==
    /\ MarkerAfterGarbage(RX_BUFFER_SIZE - 5) =>
        /\ state = "SYNCHRONIZED"
        /\ rxBuffer = Marker
        /\ stream = <<>>
    /\ (MarkerAfterGarbage(RX_BUFFER_SIZE - 1) /\ Len(Delivered) >= RX_BUFFER_SIZE) =>
        /\ state = "SYNCHRONIZING"
        /\ rxBuffer = <<>>
        /\ stream = SubSeq(Delivered, RX_BUFFER_SIZE + 1, Len(Delivered))

\* 2043 garbage bytes and the marker, 2047 bytes in all, were resolved
C12_Witness ==
    /\ MarkerAfterGarbage(RX_BUFFER_SIZE - 5)
    /\ Len(Delivered) = RX_BUFFER_SIZE - 1
    /\ state = "SYNCHRONIZED"
    /\ rxBuffer = Marker

(* Dispatch on the report id: whole responses, pieces of responses and     *)
(* unknown ids reach the driver before and after begin().                  *)

MaxDispatchFeeds == 2
MaxDispatchCalls == 1

DispatchChunks ==
    {HidDescriptorBytes, SubSeq(HidDescriptorBytes, 1, 12),
     HidReportDescriptorBytes, SubSeq(HidReportDescriptorBytes, 1, 10),
     SubSeq(HidReportDescriptorBytes, 1, 80),
     <<3, 0, 1>>, SubSeq(FrameOne, 1, 40), EnableResponseBytes,
     Garbage(3), Garbage(TOUCH_REPORT_SIZE - 1), Garbage(TOUCH_REPORT_SIZE),
     [i \in 1..TOUCH_REPORT_SIZE |-> 0]}

DispatchInit == InitAt({U32(0, 1)})

DispatchNext ==
    \/ Loop
    \/ Feed(DispatchChunks, MaxDispatchFeeds)
    \/ Begin(MaxDispatchCalls)

DispatchSpec == DispatchInit /\ [][DispatchNext]_vars

\* the last operation was a loop() that dispatched on the report id at the head
\* of at least 2 buffered bytes, in a state other than SYNCHRONIZING
DispatchPass ==
    /\ op.kind = "loop"
    /\ op.entry # "SYNCHRONIZING"
    /\ Len(Buffered) >= 2
    /\ Len(Buffered) < RX_BUFFER_SIZE

\* the pass left the buffer, the state and the written commands as they were
PassWaited ==
    /\ rxBuffer = Buffered
    /\ state = op.entry
    /\ written = op.sent

\* C13: outside SYNCHRONIZING, a recognised report id at the head of a buffer
\* shorter than that id's minimum length (32, 708, 6, 72) makes loop() wait: it
\* consumes nothing, keeps the state and sends no command.
C13_ShortReportWaits ==
    (DispatchPass /\ HeadId \in SizedReports /\ Len(Buffered) < MinimumLength(HeadId)) =>
        PassWaited

\* what the code does hold to: a short report waits while fewer than 72 bytes
\* are buffered
C13_ShortReportWaitsBelowFrameSize ==
    (/\ DispatchPass
     /\ HeadId \in SizedReports
     /\ Len(Buffered) < MinimumLength(HeadId)
     /\ Len(Buffered) < TOUCH_REPORT_SIZE) =>
        PassWaited

\* C14: outside SYNCHRONIZING, an unrecognised report id at the buffer head
\* consumes no byte; it forces SYNCHRONIZING exactly when at least 72 bytes are
\* buffered, and with fewer the pass changes neither the buffer nor the state.
C14_UnknownReportResyncs ==
    (DispatchPass /\ HeadId \notin HandledReports) =>
        /\ rxBuffer = Buffered
        /\ written = op.sent
        /\ state = IF Len(Buffered) >= TOUCH_REPORT_SIZE
                   THEN "SYNCHRONIZING"
                   ELSE op.entry

\* bytes under an unknown id arrived in two pieces after begin(): the pass over
\* the first 71 waited, the pass over all 74 forced SYNCHRONIZING
C14_Witness ==
    /\ DispatchPass
    /\ HeadId \notin HandledReports
    /\ op.entry = "INITIALIZING"
    /\ op.held = TOUCH_REPORT_SIZE - 1
    /\ Len(Buffered) = TOUCH_REPORT_SIZE + 2
    /\ rxBuffer = Buffered
    /\ state = "SYNCHRONIZING"

\* fewer than 72 bytes under an unknown id were left alone
C14_WitnessWaits ==
    /\ DispatchPass
    /\ HeadId \notin HandledReports
    /\ Len(Buffered) = TOUCH_REPORT_SIZE - 1
    /\ state = "DISCONNECTED"

(* The handshake under arbitrary input.                                     *)

\* the index of the latest RESET among the written commands, 0 when there is none
LastReset ==
    LET resets == {k \in 1..Len(written) : written[k] = CommandBytes(RESET)}
    IN  IF resets = {} THEN 0 ELSE CHOOSE k \in resets : \A j \in resets : j <= k

\* the commands written since the latest begin(), its RESET included
SinceBegin == SubSeq(written, LastReset, Len(written))

\* C15 as stated: whatever the transport delivers, the commands sent after a
\* begin(), up to the next begin(), are a prefix of RESET, GET_FRAME_SIZE,
\* DISABLE_USB_REPORTING, ENABLE_REPORTING.
C15_CommandsFormPrefix ==
    LastReset > 0 =>
        /\ Len(SinceBegin) <= Len(HandshakeCommands)
        /\ SinceBegin = SubSeq(HandshakeCommands, 1, Len(SinceBegin))

\* the command a loop() sends for the response it dispatches on, if any
Answer ==
    IF ~DispatchPass THEN <<>>
    ELSE IF HeadId = RESET_RESPONSE THEN <<CommandBytes(GET_FRAME_SIZE)>>
    ELSE IF HeadId = GET_FRAME_SIZE /\ Len(Buffered) >= GET_FRAME_SIZE_SIZE
    THEN <<CommandBytes(DISABLE_USB_REPORTING)>>
    ELSE IF HeadId = DISABLE_USB_REPORTING THEN <<CommandBytes(ENABLE_REPORTING)>>
    ELSE <<>>

\* C15 amended: every operation sends at most one command, and each command is
\* sent only by its own trigger: RESET by begin(), GET_FRAME_SIZE by a loop()
\* that processes a reset response, DISABLE_USB_REPORTING by one that processes
\* a frame-size response, ENABLE_REPORTING by one that processes a disable-USB
\* response, in whatever order and number the transport delivers the responses.
C15_CommandsFollowResponses ==
    written = op.sent \o (IF op.kind = "begin" THEN <<CommandBytes(RESET)>>
                          ELSE IF op.kind = "loop" THEN Answer
                          ELSE <<>>)

\* a disable-USB response that nothing asked for made the driver send
\* ENABLE_REPORTING right after RESET
C15_Witness ==
    /\ op.kind = "loop"
    /\ written = <<CommandBytes(RESET), CommandBytes(ENABLE_REPORTING)>>

(* begin() in any state, and again while the initialization is stalled.    *)

\* the clock reading at the latest begin()
ClockAtBegin == Sub32(clock, U32(elapsed \div Half, elapsed % Half))

\* C16: begin() in any state sets INITIALIZING, records the clock as the start
\* of the timeout window, discards what is pending on the transport and writes
\* exactly one RESET; the timeout window runs from the latest begin(): a loop()
\* that starts in INITIALIZING declares the timeout exactly when 1000 units have
\* passed since that begin().
C16_BeginRestartsWindow ==
    /\ op.kind = "begin" =>
        /\ state = "INITIALIZING"
        /\ initializingStartTimeMs = clock
        /\ stream = <<>>
        /\ written = op.sent \o <<CommandBytes(RESET)>>
    /\ (op.kind = "loop" /\ op.from = "INITIALIZING") =>
        (op.entry = "INITIALIZATION_FAILED" <=> elapsed >= INITIALIZATION_TIMEOUT_MS)

\* the same, the window being left out when the latest begin() read a clock of 0
C16_BeginRestartsWindowAtNonZeroClock ==
    /\ op.kind = "begin" =>
        /\ state = "INITIALIZING"
        /\ initializingStartTimeMs = clock
        /\ stream = <<>>
        /\ written = op.sent \o <<CommandBytes(RESET)>>
    /\ (op.kind = "loop" /\ op.from = "INITIALIZING" /\ ClockAtBegin # Zero32) =>
        (op.entry = "INITIALIZATION_FAILED" <=> elapsed >= INITIALIZATION_TIMEOUT_MS)

\* begin() was called again 999 units into a stalled initialization: one unit
\* later, 1000 after the first begin(), loop() does not declare the timeout
C16_WitnessRestarted ==
    /\ op.kind = "loop"
    /\ op.from = "INITIALIZING"
    /\ Len(written) = 2
    /\ elapsed = 1
    /\ clock = U32(0, 500)
    /\ state = "INITIALIZING"

(* State transitions and their notification, over the whole interface.     *)

\* C17 as stated: every transition into CONNECTED starts in INITIALIZING and is
\* triggered by processing a reset response.
C17_ConnectedOnlyFromInitializing ==
    (state = "CONNECTED" /\ op.from # "CONNECTED") =>
        /\ op.from = "INITIALIZING"
        /\ DispatchPass
        /\ HeadId = RESET_RESPONSE

\* C17 amended: every transition into CONNECTED is triggered by processing a
\* reset response, in any state but SYNCHRONIZING; and a reset response
\* processed in any of those states leaves the driver CONNECTED.
C17_ConnectedOnlyByResetResponse ==
    /\ (state = "CONNECTED" /\ op.from # "CONNECTED") =>
        /\ DispatchPass
        /\ HeadId = RESET_RESPONSE
        /\ op.from \in {"DISCONNECTED", "INITIALIZING", "INITIALIZATION_FAILED",
                        "SYNCHRONIZED"}
    /\ (DispatchPass /\ HeadId = RESET_RESPONSE) => state = "CONNECTED"

\* a reset response took a SYNCHRONIZED driver back to CONNECTED
C17_Witness ==
    /\ DispatchPass
    /\ HeadId = RESET_RESPONSE
    /\ op.from = "SYNCHRONIZED"
    /\ state = "CONNECTED"

\* a reset response took the driver to CONNECTED before any begin()
C17_WitnessFromDisconnected ==
    /\ DispatchPass
    /\ op.from = "DISCONNECTED"
    /\ state = "CONNECTED"

\* C18: every change of the state invokes the registered state-change callback
\* exactly once with (new state, state held immediately before), the two being
\* different; an operation that asks for the state already held, such as
\* begin() in INITIALIZING, changes no state and notifies nothing.
C18_EveryChangeNotifiedOnce ==
    /\ \A i \in 1..Len(notes) :
        /\ notes[i][1] # notes[i][2]
        /\ notes[i][2] = IF i = 1 THEN op.from ELSE notes[i - 1][1]
    /\ IF notes = <<>>
       THEN stateChangeCallback # NULL => state = op.from
       ELSE /\ stateChangeCallback # NULL
            /\ notes[Len(notes)][1] = state
    /\ stateChangeCallback = NULL => notes = <<>>
    /\ (op.kind = "begin" /\ op.from = "INITIALIZING") =>
        /\ state = "INITIALIZING"
        /\ notes = <<>>

\* begin() was called in INITIALIZING with a callback registered: no notification
C18_Witness ==
    /\ op.kind = "begin"
    /\ op.from = "INITIALIZING"
    /\ stateChangeCallback = OnState
    /\ notes = <<>>

\* begin() on the constructed driver changed the state and notified it once
C18_WitnessChange ==
    /\ op.kind = "begin"
    /\ notes = <<<<"INITIALIZING", "DISCONNECTED">>>>

(* One handling pass per loop().                                            *)

\* the length of the report or response with the given id
ReportLength(reportId) ==
    IF reportId \in SizedReports THEN MinimumLength(reportId) ELSE 2

\* C19: one loop() drains the transport up to the capacity and performs at most
\* one handling pass: it consumes at most one report or response, invokes each
\* listener at most once and sends at most one command, however many complete
\* frames are buffered.
C19_OnePassPerLoop ==
    op.kind = "loop" =>
        /\ Len(Buffered) <= RX_BUFFER_SIZE
        /\ Len(written) <= Len(op.sent) + 1
        /\ SubSeq(written, 1, Len(op.sent)) = op.sent
        /\ Len(calls) <= Len(listeners)
        /\ \A i \in 1..Len(calls) : calls[i].listener = listeners[i]
        /\ DispatchPass =>
            /\ Len(Buffered) - Len(rxBuffer) <= ReportLength(HeadId)
            /\ rxBuffer = SubSeq(Buffered, Len(Buffered) - Len(rxBuffer) + 1, Len(Buffered))

\* two complete touch reports were buffered: loop() decoded the first, called
\* the listener once and left the second in the buffer
C19_Witness ==
    /\ op.kind = "loop"
    /\ Buffered = FrameOne \o FrameOne
    /\ rxBuffer = FrameOne
    /\ Len(calls) = 1

\* two reset responses were buffered: loop() answered one
C19_WitnessOneCommand ==
    /\ op.kind = "loop"
    /\ Buffered = ResetResponseBytes \o ResetResponseBytes
    /\ written = <<CommandBytes(GET_FRAME_SIZE)>>

(* The frame size: set by the application, reported by the sensor.         *)

\* C20: after setFrameSize(w, h) the frame dimensions stay (w, h), and the
\* contacts decoded afterwards carry (w, h), whatever GET_FRAME_SIZE response
\* is processed later.
C20_ManualSizeWins ==
    op.manual # <<>> =>
        /\ frameWidth = op.manual[1]
        /\ frameHeight = op.manual[2]
        /\ DecodedTouchReport =>
            \A j \in 1..touchCount :
                /\ touches[j].frameWidth = op.manual[1]
                /\ touches[j].frameHeight = op.manual[2]

\* what the code holds to: the frame dimensions are those of the latest of the
\* setFrameSize() calls and the GET_FRAME_SIZE responses processed
C20_LatestSizeWins ==
    /\ op.kind = "setFrameSize" =>
        /\ frameWidth = op.arg[1]
        /\ frameHeight = op.arg[2]
    /\ (DispatchPass /\ HeadId = GET_FRAME_SIZE /\ Len(Buffered) >= GET_FRAME_SIZE_SIZE) =>
        /\ frameWidth = Buffered[3] + 256 * Buffered[4]
        /\ frameHeight = Buffered[5] + 256 * Buffered[6]

\* a GET_FRAME_SIZE response processed after setFrameSize() replaced the size
C20_WitnessOverwritten ==
    /\ op.manual # <<>>
    /\ DispatchPass
    /\ HeadId = GET_FRAME_SIZE
    /\ frameWidth = 1920
    /\ frameWidth # op.manual[1]

(* The contact count stays within the contact array.                       *)

\* C21: in every reachable state the contact count is between 0 and 6, whatever
\* contact count (0..255) and slot statuses the sensor reports: the contact array
\* keeps its 6 entries and no listener is handed more than 6 contacts.
C21_TouchCountWithinArray ==
    /\ touchCount \in 0..MAX_TOUCH_CONTACTS
    /\ Len(touches) = MAX_TOUCHES
    /\ \A i \in 1..Len(calls) :
        /\ calls[i].count \in 0..MAX_TOUCH_CONTACTS
        /\ Len(calls[i].touches) = calls[i].count

\* a report announcing 255 contacts with all six slots active was decoded and
\* delivered: the contact count stopped at 6
C21_Witness ==
    /\ DecodedTouchReport
    /\ PayloadByte(61) = 255
    /\ \A i \in 0..5 : SlotByte(i, 0) # 0
    /\ touchCount = MAX_TOUCH_CONTACTS
    /\ Len(calls) = 1
    /\ calls[1].count = MAX_TOUCH_CONTACTS

(* The listener registry: the application registers and removes listeners *)
(* in any order while a report arrives.                                    *)

MaxListenerCalls == 5
MaxListenerFeeds == 1

ListenerCallbacks == {"onTouchA", "onTouchB", "onTouchC", NULL}

\* the ids the application asks to remove: one that is issued and one that never is
ListenerIdsAsked == {1, 9}

ListenerInit == InitAt({Zero32})

ListenerNext ==
    \/ AddTouchListener(ListenerCallbacks, MaxListenerCalls)
    \/ RemoveTouchListener(ListenerIdsAsked, MaxListenerCalls)
    \/ Feed({FrameOne}, MaxListenerFeeds)
    \/ Loop

ListenerSpec == ListenerInit /\ [][ListenerNext]_vars

\* C22: addTouchListener returns -1 if and only if the callback is null or 4
\* listeners are already registered; a rejected call leaves the registry and the
\* next id to assign unchanged, and an accepted call appends the listener, with
\* the id it returns, after all registered ones.
C22_AddRejectsOrAppends ==
    op.kind = "addTouchListener" =>
        /\ op.ret = -1 <=> (op.arg = NULL \/ Len(op.pre.listeners) >= MAX_LISTENERS)
        /\ op.ret = -1 =>
                /\ listeners = op.pre.listeners
                /\ listenerIds = op.pre.listenerIds
                /\ nextListenerId = op.pre.nextListenerId
        /\ op.ret # -1 =>
                /\ listeners = Append(op.pre.listeners, op.arg)
                /\ listenerIds = Append(op.pre.listenerIds, op.ret)

\* a fifth registration with a callback was rejected
C22_Witness ==
    /\ op.kind = "addTouchListener"
    /\ op.arg # NULL
    /\ op.ret = -1
    /\ Len(listeners) = MAX_LISTENERS

\* a null callback was rejected while the registry had room
C22_WitnessNull ==
    /\ op.kind = "addTouchListener"
    /\ op.arg = NULL
    /\ op.ret = -1
    /\ Len(listeners) = 1

\* a registration was accepted behind two registered listeners
C22_WitnessAppended ==
    /\ op.kind = "addTouchListener"
    /\ op.ret # -1
    /\ Len(op.pre.listeners) = 2
    /\ listeners[3] = op.arg

\* C23: across any sequence of addTouchListener and removeTouchListener calls,
\* each id a successful registration returns is strictly greater than every id
\* returned before it (none is reused, not even after its listener was removed),
\* and the ids held in the registry are issued ids, pairwise distinct.
C23_IdsIncreaseAndNeverRepeat ==
    /\ \A i, j \in 1..Len(op.issued) : i < j => op.issued[i] < op.issued[j]
    /\ \A i \in 1..Len(op.issued) : op.issued[i] >= 0
    /\ \A i, j \in 1..Len(listenerIds) : i # j => listenerIds[i] # listenerIds[j]
    /\ \A i \in 1..Len(listenerIds) :
           \E k \in 1..Len(op.issued) : op.issued[k] = listenerIds[i]
    /\ Len(listenerIds) = Len(listeners)

\* the listener with id 1 was removed and the next registration got id 2, not 1
C23_Witness ==
    /\ op.kind = "addTouchListener"
    /\ op.pre.listenerIds = <<0>>
    /\ op.issued = <<0, 1, 2>>
    /\ listenerIds = <<0, 2>>

\* two registrations after the removal of id 1: the registry holds distinct ids
C23_WitnessDistinct ==
    /\ op.kind = "addTouchListener"
    /\ listenerIds = <<0, 2, 3>>

\* sequence s without its entry at index (from 1)
Without(s, index) ==
    [k \in 1..(Len(s) - 1) |-> IF k < index THEN s[k] ELSE s[k + 1]]

\* the indexes at which the registry held the id asked for when the call started
HeldAt == {i \in 1..Len(op.pre.listenerIds) : op.pre.listenerIds[i] = op.arg}

\* C24: removeTouchListener(id) returns true if and only if a listener with that
\* id is registered; it then removes exactly that listener and keeps the others
\* in their relative registration order; when it returns false the registry is
\* unchanged; and a loop() that decodes a report invokes exactly the listeners
\* the registry holds, in registry order, so the report after a removal reaches
\* the remaining listeners in their order.
C24_RemoveKeepsOrder ==
    /\ op.kind = "removeTouchListener" =>
        /\ op.ret <=> HeldAt # {}
        /\ nextListenerId = op.pre.nextListenerId
        /\ ~op.ret =>
               /\ listeners = op.pre.listeners
               /\ listenerIds = op.pre.listenerIds
        /\ op.ret =>
               \E i \in HeldAt :
                   /\ listeners = Without(op.pre.listeners, i)
                   /\ listenerIds = Without(op.pre.listenerIds, i)
    /\ op.kind = "loop" =>
        /\ listeners = op.pre.listeners
        /\ listenerIds = op.pre.listenerIds
        /\ DecodedTouchReport =>
               [k \in 1..Len(calls) |-> calls[k].listener] = listeners

\* the second of four listeners was removed: the other three keep their order
C24_WitnessRemoved ==
    /\ op.kind = "removeTouchListener"
    /\ op.arg = 1
    /\ op.ret
    /\ op.pre.listeners = <<"onTouchA", "onTouchB", "onTouchC", "onTouchB">>
    /\ listeners = <<"onTouchA", "onTouchC", "onTouchB">>
    /\ listenerIds = <<0, 2, 3>>

\* the report after that removal reached the three remaining listeners in order
C24_Witness ==
    /\ DecodedTouchReport
    /\ listenerIds = <<0, 2, 3>>
    /\ Len(calls) = 3
    /\ calls[1].listener = "onTouchA"
    /\ calls[2].listener = "onTouchC"
    /\ calls[3].listener = "onTouchB"

\* an id that was never issued was asked for: nothing was removed
C24_WitnessNotFound ==
    /\ op.kind = "removeTouchListener"
    /\ ~op.ret
    /\ Len(listeners) = 2

(* Clearing the snapshot: the application calls clearTouches() between the *)
(* reports the sensor sends.                                               *)

MaxClearFeeds == 2
MaxClearCalls == 2

ClearChunks == {FrameOne, FrameGap}

ClearInit == InitAt({Zero32})

ClearNext ==
    \/ Loop
    \/ Feed(ClearChunks, MaxClearFeeds)
    \/ ClearTouches(MaxClearCalls)
    \/ AddTouchListener({"onTouchA"}, MaxClearCalls)

ClearSpec == ClearInit /\ [][ClearNext]_vars

\* the next loop() of a driver left as m, once the bytes of chunk have reached the
\* transport: whether it decodes a touch report, and what the application can
\* observe after it (the contact count apart)
AfterNextLoop(m, chunk) ==
    LET drained == drainStream(checkTimeout([m EXCEPT !.stream = @ \o chunk]))
        data == drained.rxBuffer
        next == handleBuffer(drained)
    IN  [decodes |-> /\ drained.state # "SYNCHRONIZING"
                     /\ Len(data) >= TOUCH_REPORT_SIZE
                     /\ Len(data) < RX_BUFFER_SIZE
                     /\ isValidTouchFrame(data, Len(data))
                     /\ Word16(data[3], data[4]) = TOUCH_PAYLOAD_SIZE
                     /\ verifyCRC(data),
         touchCount |-> next.touchCount,
         seen |-> [calls |-> next.calls, touches |-> next.touches,
                   scanTime |-> next.scanTime, rxBuffer |-> next.rxBuffer,
                   state |-> next.state, written |-> next.written]]

\* C25: clearTouches() sets the contact count to 0 and changes nothing else
\* (receive buffer, connection state, listener registry, frame dimensions, the
\* stored contacts and the scan time are as before, no listener is invoked and
\* nothing is written); whatever arrives next, the next loop() does what it would
\* have done without the clear, and when it decodes a report the contact count
\* and the contacts delivered are the same as without the clear.
C25_ClearOnlyResetsCount ==
    op.kind = "clearTouches" =>
        /\ touchCount = 0
        /\ Fields = [op.pre EXCEPT !.touchCount = 0]
        /\ calls = <<>>
        /\ notes = <<>>
        /\ written = op.sent
        /\ \A chunk \in ClearChunks \cup {<<>>} :
               LET cleared == AfterNextLoop(Machine, chunk)
                   kept == AfterNextLoop([Machine EXCEPT !.touchCount = op.pre.touchCount],
                                         chunk)
               IN  /\ cleared.seen = kept.seen
                   /\ cleared.decodes = kept.decodes
                   /\ cleared.decodes => cleared.touchCount = kept.touchCount

\* two contacts were cleared while a listener was registered and the next report
\* was waiting on the transport
C25_Witness ==
    /\ op.kind = "clearTouches"
    /\ op.pre.touchCount = 2
    /\ touchCount = 0
    /\ touches[2].id = 5
    /\ Len(listeners) = 1
    /\ stream = FrameOne

\* the report after a clear was decoded and delivered
C25_WitnessNextReport ==
    /\ DecodedTouchReport
    /\ op.pre.touchCount = 0
    /\ touches[2].id = 5
    /\ touchCount = 1
    /\ Len(calls) = 1
    /\ calls[1].count = 1

(* Recovery: a frame damaged on the wire reaches the driver together with  *)
(* the intact frame that follows it.                                       *)

MaxRecoveryFeeds == 2
MaxRecoveryCalls == 1

RecoveryChunks ==
    {Damaged(FrameOne, 30) \o FrameGap, Damaged(FrameGap, 71) \o FrameOne,
     Garbage(TOUCH_REPORT_SIZE)}

RecoveryInit == InitAt({Zero32})

RecoveryNext ==
    \/ Loop
    \/ Feed(RecoveryChunks, MaxRecoveryFeeds)
    \/ AddTouchListener({"onTouchA"}, MaxRecoveryCalls)

RecoverySpec == RecoveryInit /\ [][RecoveryNext]_vars

\* the bytes the next loop() finds in its buffer once it has read the transport
Pending == rxBuffer \o stream

\* Pending starts with a frame whose header is intact and whose CRC is wrong,
\* no marker starts at its bytes 1..71, a complete valid frame follows it
\* immediately, and all of Pending fits the receive buffer
CorruptedThenValid ==
    /\ Len(Pending) >= 2 * TOUCH_REPORT_SIZE
    /\ Len(Pending) < RX_BUFFER_SIZE
    /\ SubSeq(Pending, 1, 4) = Marker
    /\ SubSeq(Pending, TOUCH_REPORT_SIZE + 1, TOUCH_REPORT_SIZE + 4) = Marker
    /\ \A q \in 1..(TOUCH_REPORT_SIZE - 1) : SubSeq(Pending, q + 1, q + 4) # Marker
    /\ ~verifyCRC(SubSeq(Pending, 1, TOUCH_REPORT_SIZE))
    /\ verifyCRC(SubSeq(Pending, TOUCH_REPORT_SIZE + 1, 2 * TOUCH_REPORT_SIZE))

\* m with the record of what the previous operation emitted cleared
Quiet(m) == [m EXCEPT !.calls = <<>>, !.notes = <<>>, !.logged = <<>>]

\* the driver now and after each of the next four loop() calls, nothing else
\* happening in between
NextLoops ==
    LET first == loop(Machine)
        second == loop(Quiet(first))
        third == loop(Quiet(second))
        fourth == loop(Quiet(third))
    IN  <<Machine, first, second, third, fourth>>

\* in the run of loop() calls, the k-th decodes the valid frame that follows the
\* corrupted one, hands it to every listener and consumes it
DeliversAt(run, k) ==
    LET drained == drainStream(checkTimeout(run[k]))
        after == run[k + 1]
        valid == SubSeq(Pending, TOUCH_REPORT_SIZE + 1, 2 * TOUCH_REPORT_SIZE)
    IN  /\ drained.state # "SYNCHRONIZING"
        /\ Len(drained.rxBuffer) = Len(Pending) - TOUCH_REPORT_SIZE
        /\ SubSeq(drained.rxBuffer, 1, TOUCH_REPORT_SIZE) = valid
        /\ Len(after.rxBuffer) = Len(drained.rxBuffer) - TOUCH_REPORT_SIZE
        /\ after.state = drained.state
        /\ after.scanTime = Word16(valid[67], valid[68])
        /\ Len(after.calls) = Len(listeners)
        /\ \A i \in 1..Len(after.calls) :
               after.calls[i].touches = SubSeq(after.touches, 1, after.touchCount)

\* the valid frame is delivered by one of the first n loop() calls of the run,
\* and the calls before that one invoke no listener
DeliveredWithin(run, n) ==
    \E k \in 1..n :
        /\ DeliversAt(run, k)
        /\ \A j \in 1..(k - 1) : run[j + 1].calls = <<>>

\* C26 as stated: whenever a frame with a wrong CRC is immediately followed by a
\* complete valid frame, and bytes 1..71 of the corrupted frame contain no
\* marker, repeated loop() calls deliver the valid frame within three calls and
\* never deliver the corrupted one.
C26_RecoveryWithinThree ==
    CorruptedThenValid => DeliveredWithin(NextLoops, 3)

\* C26, amended: in every state but Synchronizing the valid frame is delivered by
\* the third loop() (reject and skip 1 byte, resync discarding 71 bytes, decode);
\* in Synchronizing a first pass only finds the marker at the head of the
\* corrupted frame, so the valid frame is delivered by the fourth loop() and not
\* before; the corrupted frame is never delivered.
C26_RecoveryWithinThreeOrFour ==
    CorruptedThenValid =>
        LET run == NextLoops
            last == IF state = "SYNCHRONIZING" THEN 4 ELSE 3
        IN  /\ DeliversAt(run, last)
            /\ \A j \in 1..(last - 1) : run[j + 1].calls = <<>>

\* the corrupted and the valid frame are pending in Synchronized, where an
\* earlier frame was decoded, with a listener registered
C26_Witness ==
    /\ CorruptedThenValid
    /\ state = "SYNCHRONIZED"
    /\ scanTime = 4660
    /\ Len(listeners) = 1

\* the corrupted and the valid frame are pending in Synchronizing
C26_WitnessSynchronizing ==
    /\ CorruptedThenValid
    /\ state = "SYNCHRONIZING"

\* the run itself: the third loop() after the frames arrived delivered the valid one
C26_WitnessDelivered ==
    /\ DecodedTouchReport
    /\ op.pre.state = "SYNCHRONIZED"
    /\ SubSeq(Buffered, 1, TOUCH_REPORT_SIZE) = FrameGap
    /\ touchCount = 2
    /\ Len(calls) = 1

(* Dispatch and the connection state: reports, responses and garbage reach *)
(* a driver that is in any of its states, before, during and after the     *)
(* handshake and its timeout.                                              *)

MaxGatingSteps == 4

GatingChunks ==
    {FrameOne, ResetResponseBytes \o FrameSizeResponse(1920, 1080), Garbage(RX_BUFFER_SIZE)}

GatingInit == InitAt({U32(0, 1)})

\* every delivery, clock advance and API call takes one of the MaxGatingSteps steps
GatingNext ==
    \/ Loop
    \/ Begin(MaxGatingSteps - fed - ticked)
    \/ Feed(GatingChunks, MaxGatingSteps - called - ticked)
    \/ Tick({INITIALIZATION_TIMEOUT_MS}, MaxGatingSteps - called - fed)
    \/ AddTouchListener({"onTouchA"}, MaxGatingSteps - fed - ticked)

GatingSpec == GatingInit /\ [][GatingNext]_vars

\* C27: an operation that starts in SYNCHRONIZING: if it is a loop(), the
\* initialization timeout is not evaluated (the state at dispatch is still
\* SYNCHRONIZING and the start time is kept), nothing is dispatched by report id
\* (no command is written, no listener invoked, snapshot and frame size are
\* kept, the buffer only loses a prefix) and the state stays SYNCHRONIZING or
\* becomes SYNCHRONIZED with the marker found and now at the buffer head; the
\* state leaves SYNCHRONIZING only that way or to INITIALIZING by begin().
C27_SynchronizingOnlyResyncs ==
    op.pre.state = "SYNCHRONIZING" =>
        /\ op.kind = "loop" =>
            /\ op.entry = "SYNCHRONIZING"
            /\ initializingStartTimeMs = op.pre.initializingStartTimeMs
            /\ written = op.sent
            /\ calls = <<>>
            /\ Snapshot = op.before
            /\ frameWidth = op.pre.frameWidth
            /\ frameHeight = op.pre.frameHeight
            /\ \E k \in 0..Len(Buffered) : rxBuffer = SubSeq(Buffered, k + 1, Len(Buffered))
            /\ state \in {"SYNCHRONIZING", "SYNCHRONIZED"}
            /\ state = "SYNCHRONIZED" =>
                   /\ MarkerOffsets # {}
                   /\ SubSeq(rxBuffer, 1, 4) = Marker
        /\ state # "SYNCHRONIZING" =>
            \/ op.kind = "loop" /\ state = "SYNCHRONIZED"
            \/ op.kind = "begin" /\ state = "INITIALIZING"

\* a reset response and more were buffered in SYNCHRONIZING: loop() discarded
\* them without answering, although the handshake window had run out
C27_Witness ==
    /\ op.kind = "loop"
    /\ op.pre.state = "SYNCHRONIZING"
    /\ Len(Buffered) >= 4
    /\ SubSeq(Buffered, 1, 2) = ResetResponseBytes
    /\ Positive32(initializingStartTimeMs)
    /\ elapsed >= INITIALIZATION_TIMEOUT_MS
    /\ state = "SYNCHRONIZING"
    /\ written = <<CommandBytes(RESET)>>

\* a valid frame was buffered in SYNCHRONIZING with a listener registered: loop()
\* found its marker and called nobody
C27_WitnessFrame ==
    /\ op.kind = "loop"
    /\ op.pre.state = "SYNCHRONIZING"
    /\ Buffered = FrameOne
    /\ rxBuffer = FrameOne
    /\ Len(listeners) = 1
    /\ state = "SYNCHRONIZED"

\* begin() was called in SYNCHRONIZING
C27_WitnessBegin ==
    /\ op.kind = "begin"
    /\ op.pre.state = "SYNCHRONIZING"
    /\ state = "INITIALIZING"

\* C28: in every state other than SYNCHRONIZING (DISCONNECTED before any begin(),
\* INITIALIZING, CONNECTED and INITIALIZATION_FAILED included) a loop() that finds
\* a valid 72-byte frame at the buffer head decodes it, hands it to every listener
\* once, consumes its 72 bytes, writes no command and leaves the connection state
\* as it was at dispatch.
C28_TouchReportsInAnyState ==
    (/\ op.kind = "loop"
     /\ op.entry # "SYNCHRONIZING"
     /\ Len(Buffered) >= TOUCH_REPORT_SIZE
     /\ Len(Buffered) < RX_BUFFER_SIZE
     /\ HeaderPasses
     /\ CrcPasses) =>
        /\ state = op.entry
        /\ rxBuffer = SubSeq(Buffered, TOUCH_REPORT_SIZE + 1, Len(Buffered))
        /\ touchCount = Cardinality(ActiveSlots)
        /\ \A j \in 1..touchCount : touches[j] = ContactOfSlot(NthActiveSlot(j))
        /\ scanTime = PayloadByte(62) + 256 * PayloadByte(63)
        /\ calls = OwedCalls
        /\ written = op.sent

\* a frame was delivered to a listener in DISCONNECTED, begin() never called
C28_Witness ==
    /\ DecodedTouchReport
    /\ op.pre.state = "DISCONNECTED"
    /\ state = "DISCONNECTED"
    /\ written = <<>>
    /\ Len(calls) = 1
    /\ touchCount = 1
    /\ rxBuffer = <<>>

\* a frame was delivered in INITIALIZING, the reset still unanswered
C28_WitnessInitializing ==
    /\ DecodedTouchReport
    /\ op.pre.state = "INITIALIZING"
    /\ state = "INITIALIZING"
    /\ Len(calls) = 1

\* a frame was delivered in CONNECTED, the handshake not yet completed
C28_WitnessConnected ==
    /\ DecodedTouchReport
    /\ op.pre.state = "CONNECTED"
    /\ state = "CONNECTED"
    /\ Len(calls) = 1

\* a frame was delivered in INITIALIZATION_FAILED, after the timeout
C28_WitnessFailed ==
    /\ DecodedTouchReport
    /\ op.pre.state = "INITIALIZATION_FAILED"
    /\ state = "INITIALIZATION_FAILED"
    /\ Len(calls) = 1

(* Split markers: the 4 marker bytes of a frame reach the driver in two    *)
(* deliveries while it searches for a marker.                              *)

MaxSplitFeeds == 3

\* garbage, the first 1, 2 or 3 bytes of a frame, and the rest of that frame
SplitChunks ==
    {Garbage(TOUCH_REPORT_SIZE)}
        \cup {SubSeq(FrameOne, 1, j) : j \in 1..3}
        \cup {SubSeq(FrameOne, j + 1, TOUCH_REPORT_SIZE) : j \in 1..3}

SplitInit == InitAt({Zero32})

SplitNext ==
    \/ Loop
    \/ Feed(SplitChunks, MaxSplitFeeds)

SplitSpec == SplitInit /\ [][SplitNext]_vars

\* the region the last pass scanned ends with the first j bytes of the marker
EndsWithMarkerPrefix(j) ==
    /\ Len(Buffered) >= j
    /\ SubSeq(Buffered, Len(Buffered) - j + 1, Len(Buffered)) = SubSeq(Marker, 1, j)

\* C29: a resync pass over at least 4 buffered bytes that hold no complete marker
\* discards all of them and stays in SYNCHRONIZING; when those bytes end with the
\* first 1, 2 or 3 bytes of a marker, the loop() that receives the rest of that
\* frame finds no marker either: it discards the rest, stays in SYNCHRONIZING and
\* calls no listener.
C29_SplitMarkerIsLost ==
    (ResyncPass /\ Len(Buffered) >= 4 /\ MarkerOffsets = {}) =>
        /\ rxBuffer = <<>>
        /\ state = "SYNCHRONIZING"
        /\ \A j \in 1..3 :
               EndsWithMarkerPrefix(j) =>
                   LET rest == SubSeq(FrameOne, j + 1, TOUCH_REPORT_SIZE)
                       next == loop([Quiet(Machine) EXCEPT !.stream = @ \o rest])
                   IN  /\ next.state = "SYNCHRONIZING"
                       /\ next.rxBuffer = <<>>
                       /\ next.calls = <<>>

\* garbage followed by the first two marker bytes was discarded as a whole
C29_Witness ==
    /\ ResyncPass
    /\ Len(Buffered) = TOUCH_REPORT_SIZE + 2
    /\ MarkerOffsets = {}
    /\ EndsWithMarkerPrefix(2)
    /\ rxBuffer = <<>>

\* the rest of that frame arrived for the next loop(): it was discarded too
C29_WitnessRest ==
    /\ ResyncPass
    /\ Buffered = SubSeq(FrameOne, 3, TOUCH_REPORT_SIZE)
    /\ op.pre.rxBuffer = <<>>
    /\ rxBuffer = <<>>
    /\ state = "SYNCHRONIZING"

(* begin() and the bytes already buffered.                                 *)

\* C30: begin() empties the transport and leaves the receive buffer, the touch
\* snapshot and the stored contacts, the frame dimensions, the listener registry
\* and the state callback as they were and calls no listener; the next loop()
\* handles the bytes that were buffered before begin() exactly as it would handle
\* the same bytes arriving on the transport after the reset.
C30_BeginKeepsBuffer ==
    op.kind = "begin" =>
        /\ stream = <<>>
        /\ Fields = [op.pre EXCEPT !.state = "INITIALIZING",
                                   !.initializingStartTimeMs = clock]
        /\ calls = <<>>
        /\ written = Append(op.sent, CommandBytes(RESET))
        /\ loop(Quiet(Machine)) =
               loop([Quiet(Machine) EXCEPT !.rxBuffer = <<>>, !.stream = op.pre.rxBuffer])

\* a reset response was still buffered when begin() was called
C30_Witness ==
    /\ op.kind = "begin"
    /\ op.pre.state = "CONNECTED"
    /\ rxBuffer = ResetResponseBytes
    /\ state = "INITIALIZING"

\* the loop() after that begin() took the stale response for the answer to the reset
C30_WitnessStaleAnswer ==
    /\ op.kind = "loop"
    /\ op.pre.state = "INITIALIZING"
    /\ op.pre.rxBuffer = ResetResponseBytes
    /\ Buffered = ResetResponseBytes
    /\ state = "CONNECTED"

\* begin() was called while a decoded contact stood in the snapshot
C30_WitnessSnapshot ==
    /\ op.kind = "begin"
    /\ touchCount = 1
    /\ scanTime = 4660

(* The payload-size test of processTouchReport.                            *)

\* the warnings the last operation logged
Warned == {logged[i] : i \in 1..Len(logged)}

\* the last operation was a loop() that rejected the touch report it handled:
\* it skipped one byte and left the driver in SYNCHRONIZING
RejectedTouchReport ==
    /\ HandledTouchReport
    /\ state = "SYNCHRONIZING"
    /\ rxBuffer = SubSeq(Buffered, 2, Len(Buffered))

\* C31: the 'unexpected payload size' rejection of processTouchReport never
\* fires: a report whose size field is not 64 fails the header check before it,
\* and every rejected touch report is rejected by the header check or by the CRC
\* check, never by both and never by anything else.
C31_PayloadSizeCheckIsDead ==
    /\ "Unexpected touch report payload size" \notin Warned
    /\ HandledTouchReport =>
        /\ ~PayloadSizePasses => "Invalid touch frame header, re-synchronizing" \in Warned
        /\ RejectedTouchReport <=> (~HeaderPasses \/ ~CrcPasses)
        /\ RejectedTouchReport =>
               IF HeaderPasses
               THEN /\ "CRC mismatch, re-synchronizing" \in Warned
                    /\ "Invalid touch frame header, re-synchronizing" \notin Warned
               ELSE /\ "Invalid touch frame header, re-synchronizing" \in Warned
                    /\ "CRC mismatch, re-synchronizing" \notin Warned

\* a report with id 0x0004 and size field 65 was rejected, by the header check
C31_Witness ==
    /\ RejectedTouchReport
    /\ Buffered[3] = 65
    /\ Buffered[4] = 0
    /\ ~PayloadSizePasses
    /\ "Invalid touch frame header, re-synchronizing" \in Warned

\* a report with size field 64 and a damaged payload was rejected, by the CRC check
C31_WitnessCrc ==
    /\ RejectedTouchReport
    /\ HeaderPasses
    /\ PayloadSizePasses
    /\ "CRC mismatch, re-synchronizing" \in Warned

====
